---- MODULE Spec2Model ----
(***************************************************************************)
(* Model of the E.V3 kernel's concurrency substrate and module registry.   *)
(*                                                                         *)
(*   Part A  TaskQueue / TaskHandle   kernel_cpp/include/ev3/task_queue.hpp *)
(*   Part C  EventBus                 kernel_cpp/include/ev3/event_bus.hpp  *)
(*                                    kernel_cpp/src/event_bus.cpp          *)
(*   Part D  Permission / KernelAPI   kernel_cpp/include/ev3/common.hpp     *)
(*                                    kernel_cpp/include/ev3/module.hpp     *)
(*   Part E  ModuleRegistry           kernel_cpp/include/ev3/kernel.hpp     *)
(*                                                                         *)
(* Each part has its own next-state relations and specifications; the      *)
(* variables of the parts a specification does not use stay at their       *)
(* initial values.                                                         *)
(***************************************************************************)
EXTENDS Integers, Sequences, FiniteSets, TLC

\* ------------------------------------------------------------------------
\* Bounds of the model
\* ------------------------------------------------------------------------
MaxTasks == 2       \* tasks submitted in one behaviour of the life-cycle specifications
MaxOrderTasks == 4  \* tasks submitted in one behaviour of the ordering specification
NumWorkers == 2     \* num_workers_ of the modelled queue
MaxEvents == 3      \* events emitted in one behaviour
MaxApiEvents == 2   \* events emitted in one behaviour of the kernel-API specification

\* ------------------------------------------------------------------------
\* Program constants: enum class TaskPriority
\* ------------------------------------------------------------------------
Low == 0
Normal == 1
High == 2
Critical == 3

\* priorities the modelled producers submit with
Priorities == {Normal, High}
\* "plain": TaskQueue::submit, "result": TaskQueue::submit_with_result
Kinds == {"plain", "result"}
\* how the submitted work ends
Outcomes == {"returned", "threw"}

Workers == 1..NumWorkers

\* enum class TaskStatus
Terminal == {"Completed", "Cancelled", "Failed"}
TaskStatus == {"Pending", "Running"} \cup Terminal

\* names of the modelled modules, event sources and event types
Modules == {"m1", "m2"}
Sources == {"m1", "ipc"}
EventTypes == {"t1"}

\* enum class Permission : uint32_t
None == 0
EventEmit == 4
EventSubscribe == 8
LlmExternal == 1024
\* the values made of the eleven bits IpcSend .. LlmExternal
Vocabulary == 0..(2 * LlmExternal - 1)

VARIABLES
    \* ---- TaskQueue ----
    running,      \* running_
    queue,        \* queue_: the heap array of std::priority_queue<Task>
    nextId,       \* next_id_
    prio,         \* the priority each task was submitted with, by task id
    kind,         \* which call created the task: submit, submit_with_result,
                  \* or a submit made by the work of a running task
    status,       \* the shared status cell of each task
    cancelled,    \* the shared cancel flag of each task
    wpc,          \* position of each worker thread in worker_loop
    qmutex,       \* the worker that holds mutex_ between two steps (0: none)
    wcur,         \* id of the Task a worker holds (0: none)
    ctl,          \* position of the thread that owns the queue (start/stop)
    invoked,      \* number of times the submitted work closure was invoked
    outcome,      \* how the submitted work ended ("none": not yet)
    stopCalls,    \* stop() calls since the last start(), counted up to 2
    atStop,       \* tasks that were in queue_ when stop() set running_ = false
    earlyCancel,  \* tasks whose cancel() came while they were still in queue_
    afterStop,    \* tasks submitted after a stop() and before the next start()
    \* ---- EventBus ----
    busRunning,   \* running_
    handlers,     \* handlers_ (names with a registered Module*)
    subs,         \* subscriptions_
    evq,          \* event_queue_
    bpc,          \* position of the bus worker thread in process_events
    bcur,         \* Event event; of the worker
    btodo,        \* subscribers the range-for of deliver_event has not visited
    bctl,         \* position of the thread that starts/stops the bus
    emitted,      \* number of events each source has emitted
    delivered,    \* per handler name: the events handle_event was called with
    threw,        \* the calls of handle_event that ended with an exception
    \* ---- KernelAPI ----
    permissions,  \* permissions_
    apiCall,      \* the last call of emit_event / subscribe_event and its end
    \* ---- ModuleRegistry ----
    modules,      \* modules_: name -> the Module (its state_ and what it declares)
    loadOrder,    \* load_order_
    regCall,      \* the last call of a registry function and its result
    loadSeq,      \* the modules whose last load succeeded and that were not
                  \* shut down since, in the order of those loads
    \* ---- has_permission ----
    permSet,      \* argument set
    permCheck,    \* argument check
    permResult,   \* the value returned ("none": not called yet)
    \* ---- InferenceEngine, ModelManager, LlmModel ----
    initialized,  \* InferenceEngine::initialized_
    currentMode,  \* ModelManager::current_mode_
    slotLoaded,   \* per slot: model_ != nullptr && ctx_ != nullptr
    slotLock,     \* per slot: the thread that holds mutex_ exclusively
    pending,      \* requests submitted to task_queue_ and not started
    gen,          \* per thread: its call of ModelManager::generate
    engCall,      \* the last call of switch_mode / switch_model / get_status
    \* ---- one LlmModel ----
    lm,           \* model_, ctx_, the holder of mutex_, and per thread its
                  \* position in load / unload and what load returned
    \* ---- Kernel and IpcServer ----
    outbound,     \* outbound_queue_
    ipcCall,      \* the last inbound message handled or request completed
    \* ---- IpcMessage ----
    ipcMsg,       \* a boundary message
    ipcJson,      \* the text to_json made of it ("none": not yet)
    ipcParsed     \* what from_json made of that text ("none": not yet)

\* the state of the TaskQueue program proper
tqProg == <<running, queue, nextId, prio, kind, status, cancelled, wpc, qmutex,
            wcur, ctl, invoked, outcome>>
tqVars == <<tqProg, stopCalls, atStop, earlyCancel, afterStop>>
busVars == <<busRunning, handlers, subs, evq, bpc, bcur, btodo, bctl,
             emitted, delivered>>
apiVars == <<permissions, apiCall>>
regVars == <<modules, loadOrder, regCall, loadSeq>>
permVars == <<permSet, permCheck, permResult>>
llmVars == <<initialized, currentMode, slotLoaded, slotLock, pending, gen, engCall>>
ipcVars == <<outbound, ipcCall, ipcMsg, ipcJson, ipcParsed>>
edgeVars == <<lm, ipcVars>>
kernelVars == <<threw, apiVars, regVars, permVars, llmVars, edgeVars>>
vars == <<tqVars, busVars, kernelVars>>

\* ------------------------------------------------------------------------
\* Part A: TaskQueue
\* ------------------------------------------------------------------------

\* queue_ holds Task records; the closure, the cell and the flag of a task
\* are found through its id
Born == 1..(nextId - 1)
InQueue(t) == \E i \in 1..Len(queue) : queue[i].id = t
QueuedIds == {queue[i].id : i \in 1..Len(queue)}

\* Task::operator<
TaskLessReversed(a, b) == a.priority > b.priority
TaskLess(a, b) == a.priority < b.priority

\* std::__push_heap (indices are 0-based as in the library)
RECURSIVE PushHeap(_, _, _, _)
PushHeap(h, hole, top, v) ==
    IF hole > top /\ TaskLess(h[((hole - 1) \div 2) + 1], v)
    THEN PushHeap([h EXCEPT ![hole + 1] = h[((hole - 1) \div 2) + 1]],
                  (hole - 1) \div 2, top, v)
    ELSE [h EXCEPT ![hole + 1] = v]

\* the while loop of std::__adjust_heap; yields <<array, holeIndex, secondChild>>
RECURSIVE AdjustLoop(_, _, _, _)
AdjustLoop(h, hole, second, len) ==
    IF second < (len - 1) \div 2
    THEN LET s1 == 2 * (second + 1)
             s2 == IF TaskLess(h[s1 + 1], h[s1]) THEN s1 - 1 ELSE s1
         IN AdjustLoop([h EXCEPT ![hole + 1] = h[s2 + 1]], s2, s2, len)
    ELSE <<h, hole, second>>

\* std::__adjust_heap(first, 0, len, value)
AdjustHeap(h, len, v) ==
    LET r == AdjustLoop(h, 0, 0, len)
        h1 == r[1]
        hole1 == r[2]
        sc1 == r[3]
    IN IF len % 2 = 0 /\ sc1 = (len - 2) \div 2
       THEN LET sc2 == 2 * (sc1 + 1)
            IN PushHeap([h1 EXCEPT ![hole1 + 1] = h1[sc2]], sc2 - 1, 0, v)
       ELSE PushHeap(h1, hole1, 0, v)

\* std::priority_queue::push: push_back, then push_heap
QueuePush(q, t) == PushHeap(Append(q, t), Len(q), 0, t)

\* std::priority_queue::top
QueueTop(q) == q[1]

\* std::priority_queue::pop: pop_heap, then pop_back
QueuePopKeepsTop(q) == q
QueuePop(q) ==
    IF Len(q) <= 1 THEN <<>>
    ELSE AdjustHeap(SubSeq(q, 1, Len(q) - 1), Len(q) - 1, q[Len(q)])

TQInit ==
    /\ running = FALSE
    /\ queue = <<>>
    /\ nextId = 1
    /\ prio = <<>>
    /\ kind = <<>>
    /\ status = <<>>
    /\ cancelled = <<>>
    /\ wpc = [w \in Workers |-> "off"]
    /\ qmutex = 0
    /\ wcur = [w \in Workers |-> 0]
    /\ ctl = "idle"
    /\ invoked = <<>>
    /\ outcome = <<>>
    /\ stopCalls = 0
    /\ atStop = {}
    /\ earlyCancel = {}
    /\ afterStop = {}

\* f extended by the entry of the task created now
WithNew(f, v) == [t \in 1..nextId |-> IF t = nextId THEN v ELSE f[t]]

\* the workers blocked in cv_.wait
Sleepers == {w \in Workers : wpc[w] = "asleep"}

\* cv_.notify_one(): one of the blocked workers, if there is any, goes on to
\* take mutex_ and to evaluate the predicate again
NotifyOne ==
    \E w \in IF Sleepers = {} THEN {0} ELSE Sleepers :
        wpc' = [u \in Workers |-> IF u = w THEN "wait" ELSE wpc[u]]

\* cv_.notify_all()
NotifyAll ==
    wpc' = [u \in Workers |-> IF wpc[u] = "asleep" THEN "wait" ELSE wpc[u]]

\* TaskQueue::submit, and TaskQueue::submit_with_result which wraps the work
\* and calls submit: the push under mutex_, then cv_.notify_one()
Submit(p, k) ==
    /\ qmutex = 0
    /\ NotifyOne
    /\ queue' = QueuePush(queue, [id |-> nextId, priority |-> p])
    /\ nextId' = nextId + 1
    /\ prio' = WithNew(prio, p)
    /\ kind' = WithNew(kind, k)
    /\ status' = WithNew(status, "Pending")
    /\ cancelled' = WithNew(cancelled, FALSE)
    /\ invoked' = WithNew(invoked, 0)
    /\ outcome' = WithNew(outcome, "none")
    /\ afterStop' = IF stopCalls > 0 THEN afterStop \cup {nextId} ELSE afterStop
    /\ UNCHANGED <<running, wcur, ctl, stopCalls, atStop, earlyCancel>>
    /\ UNCHANGED <<qmutex, busVars, kernelVars>>

\* the work of the task worker w runs calls submit on the queue it runs on
WorkSubmits(w) ==
    /\ wpc[w] = "work"
    /\ Submit(Normal, "nested")

\* TaskHandle::cancel
CancelStoresStatus(t) ==
    /\ t \in Born
    /\ ~cancelled[t]
    /\ cancelled' = [cancelled EXCEPT ![t] = TRUE]
    /\ status' = [status EXCEPT ![t] = "Cancelled"]
    /\ earlyCancel' = IF InQueue(t) THEN earlyCancel \cup {t} ELSE earlyCancel
    /\ UNCHANGED <<running, queue, nextId, prio, kind, wpc, wcur, ctl,
                   invoked, outcome, stopCalls, atStop, afterStop>>
    /\ UNCHANGED <<qmutex, busVars, kernelVars>>
Cancel(t) ==
    /\ t \in Born
    /\ ~cancelled[t]
    /\ cancelled' = [cancelled EXCEPT ![t] = TRUE]
    /\ earlyCancel' = IF InQueue(t) THEN earlyCancel \cup {t} ELSE earlyCancel
    /\ UNCHANGED <<running, queue, nextId, prio, kind, status, wpc, wcur, ctl,
                   invoked, outcome, stopCalls, atStop, afterStop>>
    /\ UNCHANGED <<qmutex, busVars, kernelVars>>

\* TaskQueue::start
Start ==
    /\ ctl = "idle"
    /\ ~running
    /\ running' = TRUE
    /\ wpc' = [w \in Workers |-> "loop"]
    /\ stopCalls' = 0
    /\ UNCHANGED <<queue, nextId, prio, kind, status, cancelled, wcur, ctl,
                   invoked, outcome, atStop, earlyCancel, afterStop>>
    /\ UNCHANGED <<qmutex, busVars, kernelVars>>

\* TaskQueue::stop, line 128: the value running_.exchange(false) returned
\* decides whether stop goes on
StopProceedsAlways(wasRunning) == TRUE
StopProceeds(wasRunning) == wasRunning

\* TaskQueue::stop, lines 128-130: running_.exchange(false) and
\* cv_.notify_all(), mutex_ not taken
StopEnter ==
    /\ ctl = "idle"
    /\ stopCalls' = IF stopCalls < 2 THEN stopCalls + 1 ELSE 2
    /\ running' = FALSE
    /\ IF StopProceeds(running)
       THEN /\ ctl' = "join"
            /\ atStop' = atStop \cup QueuedIds
            /\ NotifyAll
       ELSE UNCHANGED <<ctl, atStop, wpc>>
    /\ UNCHANGED <<queue, nextId, prio, kind, status, cancelled, wcur,
                   invoked, outcome, earlyCancel, afterStop>>
    /\ UNCHANGED <<qmutex, busVars, kernelVars>>

\* TaskQueue::stop, lines 132-137: join every worker, workers_.clear()
StopJoin ==
    /\ ctl = "join"
    /\ \A w \in Workers : wpc[w] \in {"done", "off"}
    /\ wpc' = [w \in Workers |-> "off"]
    /\ ctl' = "drain"
    /\ UNCHANGED <<running, queue, nextId, prio, kind, status, cancelled, wcur,
                   invoked, outcome, stopCalls, atStop, earlyCancel, afterStop>>
    /\ UNCHANGED <<qmutex, busVars, kernelVars>>

\* TaskQueue::stop, lines 140-147: pop everything under the mutex, return
StopDrain ==
    /\ ctl = "drain"
    /\ qmutex = 0
    /\ queue' = <<>>
    /\ ctl' = "idle"
    /\ UNCHANGED <<running, nextId, prio, kind, status, cancelled, wpc, wcur,
                   invoked, outcome, stopCalls, atStop, earlyCancel, afterStop>>
    /\ UNCHANGED <<qmutex, busVars, kernelVars>>

\* worker_loop, line 236: while (running_)
WorkerLoopCheck(w) ==
    /\ wpc[w] = "loop"
    /\ wpc' = [wpc EXCEPT ![w] = IF running THEN "wait" ELSE "done"]
    /\ UNCHANGED <<running, queue, nextId, prio, kind, status, cancelled, wcur,
                   ctl, invoked, outcome, stopCalls, atStop, earlyCancel,
                   afterStop>>
    /\ UNCHANGED <<qmutex, busVars, kernelVars>>

\* worker_loop, line 253: the block that declares lock ends before
\* task.work() is called; the holder of mutex_ a worker that dequeued
\* leaves behind
LockScopeSpans(w) == w
LockScopeEnds(w) == 0

\* worker_loop, lines 239-253: mutex_ is taken and the predicate of cv_.wait
\* evaluated; where it holds the section goes on to its end (break, or the
\* top of queue_ popped), where it does not the worker is about to block,
\* mutex_ still held
WorkerWait(w) ==
    /\ wpc[w] = "wait"
    /\ qmutex = 0
    /\ IF ~(~running \/ queue # <<>>)
       THEN /\ wpc' = [wpc EXCEPT ![w] = "sleepy"]
            /\ qmutex' = w
            /\ UNCHANGED <<queue, wcur>>
       ELSE IF queue = <<>>
       THEN /\ wpc' = [wpc EXCEPT ![w] = "done"]
            /\ UNCHANGED <<queue, wcur, qmutex>>
       ELSE /\ wcur' = [wcur EXCEPT ![w] = QueueTop(queue).id]
            /\ queue' = QueuePop(queue)
            /\ wpc' = [wpc EXCEPT ![w] = "call"]
            /\ qmutex' = LockScopeEnds(w)
    /\ UNCHANGED <<running, nextId, prio, kind, status, cancelled, ctl,
                   invoked, outcome, stopCalls, atStop, earlyCancel, afterStop>>
    /\ UNCHANGED <<busVars, kernelVars>>

\* cv_.wait, line 241: the worker releases mutex_ and blocks until it is
\* notified
WorkerBlocks(w) ==
    /\ wpc[w] = "sleepy"
    /\ wpc' = [wpc EXCEPT ![w] = "asleep"]
    /\ qmutex' = 0
    /\ UNCHANGED <<running, queue, nextId, prio, kind, status, cancelled, wcur,
                   ctl, invoked, outcome, stopCalls, atStop, earlyCancel,
                   afterStop>>
    /\ UNCHANGED <<busVars, kernelVars>>

\* cv_.wait, line 241: a blocked worker may wake without a notification
SpuriousWake(w) ==
    /\ wpc[w] = "asleep"
    /\ wpc' = [wpc EXCEPT ![w] = "wait"]
    /\ UNCHANGED <<running, queue, nextId, prio, kind, status, cancelled, wcur,
                   ctl, invoked, outcome, stopCalls, atStop, earlyCancel,
                   afterStop>>
    /\ UNCHANGED <<qmutex, busVars, kernelVars>>

\* the task wrapper of submit, line 165: is the work skipped?
WrapperIgnoresFlag(flag) == FALSE
WrapperSkips(flag) == flag

\* worker_loop line 257 into the task wrapper, lines 165-173: the flag is
\* read, then Cancelled is stored, or Running is stored and work() entered
WrapperEntry(w) ==
    /\ wpc[w] = "call"
    /\ IF WrapperSkips(cancelled[wcur[w]])
       THEN /\ status' = [status EXCEPT ![wcur[w]] = "Cancelled"]
            /\ wpc' = [wpc EXCEPT ![w] = "loop"]
            /\ wcur' = [wcur EXCEPT ![w] = 0]
            /\ UNCHANGED invoked
       ELSE /\ status' = [status EXCEPT ![wcur[w]] = "Running"]
            /\ invoked' = [invoked EXCEPT ![wcur[w]] = @ + 1]
            /\ wpc' = [wpc EXCEPT ![w] = "work"]
            /\ UNCHANGED wcur
    /\ UNCHANGED <<running, queue, nextId, prio, kind, cancelled, ctl,
                   outcome, stopCalls, atStop, earlyCancel, afterStop>>
    /\ UNCHANGED <<qmutex, busVars, kernelVars>>

\* what the try block of the wrapper (lines 172-178) sees of the work: the
\* closure that submit_with_result hands to submit catches everything (line
\* 211) and returns normally
WrapperSees(k, o) == IF k = "result" THEN "returned" ELSE o

\* the promise of submit_with_result, lines 204-213
FutureOf(t) ==
    IF kind[t] # "result" THEN "none"
    ELSE IF outcome[t] = "none" THEN "unset"
    ELSE IF outcome[t] = "returned" THEN "value" ELSE "exception"

\* the status the wrapper stores last, lines 174 and 177
FinalStatus(seen) == IF seen = "returned" THEN "Completed" ELSE "Failed"

\* the task wrapper, lines 173-178: work() ends with outcome o, the final
\* status is stored, and the worker is back at the loop head
WorkEnd(w, o) ==
    /\ wpc[w] = "work"
    /\ outcome' = [outcome EXCEPT ![wcur[w]] = o]
    /\ status' = [status EXCEPT ![wcur[w]] = FinalStatus(WrapperSees(kind[wcur[w]], o))]
    /\ wpc' = [wpc EXCEPT ![w] = "loop"]
    /\ wcur' = [wcur EXCEPT ![w] = 0]
    /\ UNCHANGED <<running, queue, nextId, prio, kind, cancelled, ctl,
                   invoked, stopCalls, atStop, earlyCancel, afterStop>>
    /\ UNCHANGED <<qmutex, busVars, kernelVars>>

\* the steps of the worker threads
WorkerStep ==
    \/ \E w \in Workers : WorkerLoopCheck(w)
    \/ \E w \in Workers : WorkerWait(w)
    \/ \E w \in Workers : WorkerBlocks(w)
    \/ \E w \in Workers : SpuriousWake(w)
    \/ \E w \in Workers : WrapperEntry(w)
    \/ \E w \in Workers, o \in Outcomes : WorkEnd(w, o)

\* the calls of the thread that owns the queue
OwnerStep ==
    \/ Start
    \/ StopEnter
    \/ StopJoin
    \/ StopDrain

\* life cycle of tasks made by submit: producers, cancellers, owner, workers
TQNext ==
    \/ (nextId <= MaxTasks /\ Submit(Normal, "plain"))
    \/ \E t \in 1..MaxTasks : Cancel(t)
    \/ OwnerStep
    \/ WorkerStep

\* the same with tasks made by submit and by submit_with_result
TQResultNext ==
    \/ \E k \in Kinds : (nextId <= MaxTasks /\ Submit(Normal, k))
    \/ \E t \in 1..MaxTasks : Cancel(t)
    \/ OwnerStep
    \/ WorkerStep

\* order of dequeueing: producers with several priorities and the workers of
\* a started queue
TQOrderNext ==
    \/ \E p \in Priorities : (nextId <= MaxOrderTasks /\ Submit(p, "plain"))
    \/ Start
    \/ WorkerStep

\* tasks whose work submits further tasks to the queue it runs on, next to
\* the producers and the workers of a started queue
TQNestedNext ==
    \/ (nextId <= MaxTasks /\ Submit(Normal, "plain"))
    \/ \E w \in Workers : (nextId <= MaxOrderTasks /\ WorkSubmits(w))
    \/ Start
    \/ WorkerStep

\* ------------------------------------------------------------------------
\* Part C: EventBus
\* ------------------------------------------------------------------------

BusInit ==
    /\ busRunning = FALSE
    /\ handlers = {}
    /\ subs = <<>>
    /\ evq = <<>>
    /\ bpc = "off"
    /\ bcur = <<>>
    /\ btodo = {}
    /\ bctl = "idle"
    /\ emitted = [s \in Sources |-> 0]
    /\ delivered = [m \in Modules |-> <<>>]

\* an Event: type and source as emitted; data is the number of the emission
\* of its source; sync tells emit_sync from emit
MkEvent(ty, src, isSync) ==
    [type |-> ty, source |-> src, data |-> emitted[src] + 1, sync |-> isSync]

TotalEmitted == emitted["m1"] + emitted["ipc"]

\* mutex_ is held by the bus worker from the entry of deliver_event to its
\* return, and for ever once the worker hangs inside a handler
MutexNeverHeld == TRUE
MutexFree == bpc \notin {"deliver", "stuck"}

\* EventBus::start
BusStart ==
    /\ bctl = "idle"
    /\ ~busRunning
    /\ busRunning' = TRUE
    /\ bpc' = "loop"
    /\ UNCHANGED <<handlers, subs, evq, bcur, btodo, bctl, emitted, delivered>>
    /\ UNCHANGED <<tqVars, kernelVars>>

\* EventBus::stop, lines 66-68, on a running bus
BusStopEnter ==
    /\ bctl = "idle"
    /\ busRunning
    /\ busRunning' = FALSE
    /\ bctl' = "join"
    /\ UNCHANGED <<handlers, subs, evq, bpc, bcur, btodo, emitted, delivered>>
    /\ UNCHANGED <<tqVars, kernelVars>>

\* EventBus::stop, lines 69-72: join the worker
BusStopJoin ==
    /\ bctl = "join"
    /\ bpc = "done"
    /\ bpc' = "off"
    /\ bctl' = "idle"
    /\ UNCHANGED <<busRunning, handlers, subs, evq, bcur, btodo, emitted, delivered>>
    /\ UNCHANGED <<tqVars, kernelVars>>

\* EventBus::register_handler
RegisterHandler(m) ==
    /\ MutexFree
    /\ handlers' = handlers \cup {m}
    /\ UNCHANGED <<busRunning, subs, evq, bpc, bcur, btodo, bctl, emitted, delivered>>
    /\ UNCHANGED <<tqVars, kernelVars>>

\* EventBus::unregister_handler
UnregisterKeepsSubscriptions(m) ==
    /\ MutexFree
    /\ handlers' = handlers \ {m}
    /\ UNCHANGED <<busRunning, subs, evq, bpc, bcur, btodo, bctl, emitted, delivered>>
    /\ UNCHANGED <<tqVars, kernelVars>>
UnregisterHandler(m) ==
    /\ MutexFree
    /\ handlers' = handlers \ {m}
    /\ subs' = [ty \in DOMAIN subs |-> subs[ty] \ {m}]
    /\ UNCHANGED <<busRunning, evq, bpc, bcur, btodo, bctl, emitted, delivered>>
    /\ UNCHANGED <<tqVars, kernelVars>>

\* EventBus::subscribe
Subscribe(ty, m) ==
    /\ MutexFree
    /\ IF m \notin handlers
       THEN UNCHANGED subs
       ELSE subs' = [x \in DOMAIN subs \cup {ty} |->
                       IF x = ty
                       THEN (IF ty \in DOMAIN subs THEN subs[ty] ELSE {}) \cup {m}
                       ELSE subs[x]]
    /\ UNCHANGED <<busRunning, handlers, evq, bpc, bcur, btodo, bctl, emitted, delivered>>
    /\ UNCHANGED <<tqVars, kernelVars>>

\* EventBus::unsubscribe
Unsubscribe(ty, m) ==
    /\ MutexFree
    /\ IF ty \in DOMAIN subs
       THEN subs' = [subs EXCEPT ![ty] = @ \ {m}]
       ELSE UNCHANGED subs
    /\ UNCHANGED <<busRunning, handlers, evq, bpc, bcur, btodo, bctl, emitted, delivered>>
    /\ UNCHANGED <<tqVars, kernelVars>>

\* EventBus::emit
Emit(ty, src) ==
    /\ TotalEmitted < MaxEvents
    /\ evq' = Append(evq, MkEvent(ty, src, FALSE))
    /\ emitted' = [emitted EXCEPT ![src] = @ + 1]
    /\ UNCHANGED <<busRunning, handlers, subs, bpc, bcur, btodo, bctl, delivered>>
    /\ UNCHANGED <<tqVars, kernelVars>>

\* deliver_event, line 54: is this subscriber passed over?
SkipsNobody(name, src) == FALSE
SkipsSource(name, src) == name = src

\* deliver_event, lines 54-67, for one subscriber: the log of the handlers
\* after the loop body ran for name
DeliverTo(log, name, ev) ==
    IF SkipsSource(name, ev.source) \/ name \notin handlers
    THEN log
    ELSE [log EXCEPT ![name] = Append(@, ev)]

\* deliver_event, lines 52-68: the range-for over a set of subscribers
RECURSIVE DeliverAll(_, _, _)
DeliverAll(log, names, ev) ==
    IF names = {} THEN log
    ELSE LET n == CHOOSE x \in names : TRUE
         IN DeliverAll(DeliverTo(log, n, ev), names \ {n}, ev)

\* EventBus::emit_sync: deliver_event on the caller's thread
EmitSync(ty, src) ==
    /\ TotalEmitted < MaxEvents
    /\ MutexFree
    /\ emitted' = [emitted EXCEPT ![src] = @ + 1]
    /\ delivered' = IF ty \in DOMAIN subs
                    THEN DeliverAll(delivered, subs[ty], MkEvent(ty, src, TRUE))
                    ELSE delivered
    /\ UNCHANGED <<busRunning, handlers, subs, evq, bpc, bcur, btodo, bctl>>
    /\ UNCHANGED <<tqVars, kernelVars>>

\* process_events, line 14: while (running_)
BusLoopCheck ==
    /\ bpc = "loop"
    /\ bpc' = IF busRunning THEN "wait" ELSE "done"
    /\ UNCHANGED <<busRunning, handlers, subs, evq, bcur, btodo, bctl, emitted, delivered>>
    /\ UNCHANGED <<tqVars, kernelVars>>

\* process_events, lines 29-30: which event leaves the queue
TakeBack(q) == <<q[Len(q)], SubSeq(q, 1, Len(q) - 1)>>
TakeFront(q) == <<Head(q), Tail(q)>>

\* process_events, lines 17-31: the section under queue_mutex_
BusWait ==
    /\ bpc = "wait"
    /\ ~busRunning \/ evq # <<>>
    /\ IF evq = <<>>
       THEN /\ bpc' = "done"
            /\ UNCHANGED <<evq, bcur>>
       ELSE /\ bcur' = TakeFront(evq)[1]
            /\ evq' = TakeFront(evq)[2]
            /\ bpc' = "lock"
    /\ UNCHANGED <<busRunning, handlers, subs, btodo, bctl, emitted, delivered>>
    /\ UNCHANGED <<tqVars, kernelVars>>

\* deliver_event, lines 40-50: take mutex_, look the type up
DeliverBegin ==
    /\ bpc = "lock"
    /\ IF bcur.type \in DOMAIN subs
       THEN /\ btodo' = subs[bcur.type]
            /\ bpc' = "deliver"
            /\ UNCHANGED bcur
       ELSE /\ bpc' = "loop"
            /\ bcur' = <<>>
            /\ UNCHANGED btodo
    /\ UNCHANGED <<busRunning, handlers, subs, evq, bctl, emitted, delivered>>
    /\ UNCHANGED <<tqVars, kernelVars>>

\* deliver_event, lines 52-68: one iteration of the range-for; the iteration
\* order of the unordered_set is not fixed
DeliverOne(m) ==
    /\ bpc = "deliver"
    /\ m \in btodo
    /\ btodo' = btodo \ {m}
    /\ delivered' = DeliverTo(delivered, m, bcur)
    /\ UNCHANGED <<busRunning, handlers, subs, evq, bpc, bcur, bctl, emitted>>
    /\ UNCHANGED <<tqVars, kernelVars>>

\* deliver_event, line 69: the loop is over, mutex_ is released
DeliverEnd ==
    /\ bpc = "deliver"
    /\ btodo = {}
    /\ bpc' = "loop"
    /\ bcur' = <<>>
    /\ UNCHANGED <<busRunning, handlers, subs, evq, btodo, bctl, emitted, delivered>>
    /\ UNCHANGED <<tqVars, kernelVars>>

\* deliver_event, lines 62-67: the catch clause is inside the body of the
\* range-for, so after it the loop goes on with the subscribers not visited
AfterCatchLeaves(rest) == {}
AfterCatch(rest) == rest

\* deliver_event, lines 52-68: one iteration in which handle_event is called
\* and throws an exception derived from std::exception
HandlerThrows(m) ==
    /\ bpc = "deliver"
    /\ m \in btodo
    /\ ~SkipsSource(m, bcur.source)
    /\ m \in handlers
    /\ delivered' = DeliverTo(delivered, m, bcur)
    /\ threw' = threw \cup {[name |-> m, ev |-> bcur, rest |-> btodo \ {m}]}
    /\ btodo' = AfterCatch(btodo \ {m})
    /\ UNCHANGED <<busRunning, handlers, subs, evq, bpc, bcur, bctl, emitted>>
    /\ UNCHANGED <<tqVars, apiVars, regVars, permVars, llmVars, edgeVars>>

BusNext ==
    \/ BusStart
    \/ BusStopEnter
    \/ BusStopJoin
    \/ \E m \in Modules : RegisterHandler(m)
    \/ \E m \in Modules : UnregisterHandler(m)
    \/ \E ty \in EventTypes, m \in Modules : Subscribe(ty, m)
    \/ \E ty \in EventTypes, m \in Modules : Unsubscribe(ty, m)
    \/ \E ty \in EventTypes, src \in Sources : Emit(ty, src)
    \/ \E ty \in EventTypes, src \in Sources : EmitSync(ty, src)
    \/ BusLoopCheck
    \/ BusWait
    \/ DeliverBegin
    \/ \E m \in Modules : DeliverOne(m)
    \/ DeliverEnd

\* a started bus whose handlers return or throw
BusFaultNext ==
    \/ BusStart
    \/ \E m \in Modules : RegisterHandler(m)
    \/ \E m \in Modules : UnregisterHandler(m)
    \/ \E ty \in EventTypes, m \in Modules : Subscribe(ty, m)
    \/ \E ty \in EventTypes, m \in Modules : Unsubscribe(ty, m)
    \/ \E ty \in EventTypes, src \in Sources : Emit(ty, src)
    \/ BusLoopCheck
    \/ BusWait
    \/ DeliverBegin
    \/ \E m \in Modules : DeliverOne(m)
    \/ \E m \in Modules : HandlerThrows(m)
    \/ DeliverEnd

\* ------------------------------------------------------------------------
\* Part D: Permission and KernelAPI
\* ------------------------------------------------------------------------

\* a & b and a | b on uint32_t
RECURSIVE BitAnd(_, _)
BitAnd(a, b) ==
    IF a = 0 \/ b = 0 THEN 0
    ELSE (a % 2) * (b % 2) + 2 * BitAnd(a \div 2, b \div 2)

RECURSIVE BitOr(_, _)
BitOr(a, b) ==
    IF a = 0 THEN b
    ELSE IF b = 0 THEN a
    ELSE (IF a % 2 = 1 \/ b % 2 = 1 THEN 1 ELSE 0) + 2 * BitOr(a \div 2, b \div 2)

\* Permission::AllEvents
AllEvents == BitOr(EventEmit, EventSubscribe)

\* has_permission
has_permission_any(set, check) == BitAnd(set, check) # 0
has_permission(set, check) == BitAnd(set, check) = check

\* KernelAPI::grant_permissions: operator[] makes a None entry for a new name
grant_permissions(table, name, perms) ==
    [n \in DOMAIN table \cup {name} |->
        IF n = name
        THEN BitOr(IF name \in DOMAIN table THEN table[name] ELSE None, perms)
        ELSE table[n]]

\* KernelAPI::revoke_permissions
revoke_permissions_keeps(table, name) == table
revoke_permissions(table, name) == [n \in DOMAIN table \ {name} |-> table[n]]

\* KernelAPI::check_permission
check_permission_open(table, name, perm) == TRUE
check_permission(table, name, perm) ==
    IF name \notin DOMAIN table THEN FALSE
    ELSE has_permission(table[name], perm)

\* what is known of the last KernelAPI call
ApiCall(fn, name, ret, reentrant) ==
    [fn |-> fn, name |-> name, ret |-> ret, reentrant |-> reentrant]

ApiInit ==
    /\ permissions = <<>>
    /\ apiCall = ApiCall("none", "none", "none", FALSE)

\* subscriptions_ after line 109 of EventBus::subscribe
SubscriptionsWith(ty, m) ==
    [x \in DOMAIN subs \cup {ty} |->
        IF x = ty
        THEN (IF ty \in DOMAIN subs THEN subs[ty] ELSE {}) \cup {m}
        ELSE subs[x]]

\* KernelAPI::emit_event called by module m on a thread of its own
ApiEmitEvent(m, ty) ==
    /\ check_permission(permissions, m, EventEmit) => TotalEmitted < MaxEvents
    /\ IF ~check_permission(permissions, m, EventEmit)
       THEN /\ apiCall' = ApiCall("emit_event", m, "false", FALSE)
            /\ UNCHANGED <<evq, emitted>>
       ELSE /\ evq' = Append(evq, MkEvent(ty, m, FALSE))
            /\ emitted' = [emitted EXCEPT ![m] = @ + 1]
            /\ apiCall' = ApiCall("emit_event", m, "true", FALSE)
    /\ UNCHANGED <<busRunning, handlers, subs, bpc, bcur, btodo, bctl, delivered>>
    /\ UNCHANGED <<tqVars, threw, permissions, regVars, permVars, llmVars, edgeVars>>

\* KernelAPI::subscribe_event called by module m on a thread of its own;
\* EventBus::subscribe waits for mutex_
ApiSubscribeEvent(m, ty) ==
    /\ check_permission(permissions, m, EventSubscribe) => MutexFree
    /\ IF ~check_permission(permissions, m, EventSubscribe)
       THEN /\ apiCall' = ApiCall("subscribe_event", m, "false", FALSE)
            /\ UNCHANGED subs
       ELSE IF m \notin handlers
       THEN /\ apiCall' = ApiCall("subscribe_event", m, "false", FALSE)
            /\ UNCHANGED subs
       ELSE /\ subs' = SubscriptionsWith(ty, m)
            /\ apiCall' = ApiCall("subscribe_event", m, "true", FALSE)
    /\ UNCHANGED <<busRunning, handlers, evq, bpc, bcur, btodo, bctl, emitted, delivered>>
    /\ UNCHANGED <<tqVars, threw, permissions, regVars, permVars, llmVars, edgeVars>>

\* deliver_event, lines 52-68: one iteration in which handle_event of m calls
\* KernelAPI::emit_event under its own name and returns; emit takes
\* queue_mutex_, which the worker released at line 31 of process_events
HandlerEmits(m, ty) ==
    /\ bpc = "deliver"
    /\ m \in btodo
    /\ ~SkipsSource(m, bcur.source)
    /\ m \in handlers
    /\ check_permission(permissions, m, EventEmit) => TotalEmitted < MaxEvents
    /\ delivered' = DeliverTo(delivered, m, bcur)
    /\ btodo' = btodo \ {m}
    /\ IF ~check_permission(permissions, m, EventEmit)
       THEN /\ apiCall' = ApiCall("emit_event", m, "false", TRUE)
            /\ UNCHANGED <<evq, emitted>>
       ELSE /\ evq' = Append(evq, MkEvent(ty, m, FALSE))
            /\ emitted' = [emitted EXCEPT ![m] = @ + 1]
            /\ apiCall' = ApiCall("emit_event", m, "true", TRUE)
    /\ UNCHANGED <<busRunning, handlers, subs, bpc, bcur, bctl>>
    /\ UNCHANGED <<tqVars, threw, permissions, regVars, permVars, llmVars, edgeVars>>

\* EventBus::subscribe, line 102, on the thread that holds mutex_ since
\* line 40 of deliver_event: locking a std::mutex the thread owns is
\* undefined; the thread hangs, or the library throws std::system_error
\* (resource_deadlock_would_occur)
RelockOutcomes == {"hangs", "throws"}

\* deliver_event, lines 52-68: one iteration in which handle_event of m calls
\* KernelAPI::subscribe_event under its own name; u is what the lock attempt
\* of EventBus::subscribe does; a std::system_error leaves handle_event and
\* is caught at line 64
HandlerSubscribes(m, ty, u) ==
    /\ bpc = "deliver"
    /\ m \in btodo
    /\ ~SkipsSource(m, bcur.source)
    /\ m \in handlers
    /\ delivered' = DeliverTo(delivered, m, bcur)
    /\ IF ~check_permission(permissions, m, EventSubscribe)
       THEN /\ apiCall' = ApiCall("subscribe_event", m, "false", TRUE)
            /\ btodo' = btodo \ {m}
            /\ UNCHANGED bpc
       ELSE IF u = "hangs"
       THEN /\ apiCall' = ApiCall("subscribe_event", m, "hangs", TRUE)
            /\ bpc' = "stuck"
            /\ UNCHANGED btodo
       ELSE /\ apiCall' = ApiCall("subscribe_event", m, "throws", TRUE)
            /\ btodo' = AfterCatch(btodo \ {m})
            /\ UNCHANGED bpc
    /\ UNCHANGED <<busRunning, handlers, subs, evq, bcur, bctl, emitted>>
    /\ UNCHANGED <<tqVars, threw, permissions, regVars, permVars, llmVars, edgeVars>>

\* has_permission called with the arguments permSet and permCheck
HasPermissionCall ==
    /\ permResult = "none"
    /\ permResult' = IF has_permission(permSet, permCheck) THEN "true" ELSE "false"
    /\ UNCHANGED <<permSet, permCheck>>
    /\ UNCHANGED <<tqVars, busVars, threw, apiVars, regVars, llmVars, edgeVars>>

PermNext == HasPermissionCall

\* ------------------------------------------------------------------------
\* Part E: ModuleRegistry
\* ------------------------------------------------------------------------

\* Module::dependencies of the modelled modules: m2 declares m1
Dependencies(m) == IF m = "m2" THEN {"m1"} ELSE {}

\* the values required_permissions of a registered module returns
Declarable == {None, EventEmit, EventSubscribe, AllEvents}

\* the hooks of one module a registry call on that module invoked, in their
\* order: the one call that invokes two is shutdown_module, disable (line 147)
\* before shutdown (line 150)
HookSeq(name, hooks) ==
    LET s == SelectSeq(<<"load", "enable", "disable", "shutdown">>,
                       LAMBDA h : h \in hooks)
    IN  [i \in DOMAIN s |-> <<name, s[i]>>]

\* what is known of the last registry call: the function, its argument, the
\* error it returned ("module": an error of category Module made by the
\* registry, "hook": the error a hook of the module returned), the hooks of
\* modules it invoked, and the invocations <<module, hook>> in their order
RegCall(op, name, err, hooks) ==
    [op |-> op, name |-> name, err |-> err, hooks |-> hooks,
     seq |-> HookSeq(name, hooks), tick |-> 1 - regCall.tick]

\* the same for a call that walks load_order_; name: the module it failed at
RegBulk(op, name, err, seq) ==
    [op |-> op, name |-> name, err |-> err,
     hooks |-> {seq[i][2] : i \in DOMAIN seq},
     seq |-> seq, tick |-> 1 - regCall.tick]

RegInit ==
    /\ modules = <<>>
    /\ loadOrder = <<>>
    /\ regCall = [op |-> "none", name |-> "none", err |-> "none", hooks |-> {},
                  seq |-> <<>>, tick |-> 0]
    /\ loadSeq = <<>>

\* loadSeq after a call that left the registry as mods: the modules that are
\* gone, back in Unloaded or in Error are not loaded any more
KeepLoaded(seq, mods) ==
    SelectSeq(seq, LAMBDA n :
        /\ n \in DOMAIN mods
        /\ mods[n].state \in {"Loaded", "Enabled", "Disabled"})

\* loadSeq after a load of m succeeded: a module loaded again without a
\* shutdown in between keeps the place of its first load
NowLoaded(seq, m) ==
    IF \E i \in DOMAIN seq : seq[i] = m THEN seq ELSE Append(seq, m)

\* a Module after its constructor, with what it declares
NewModule(req) == [state |-> "Unloaded", required |-> req]

\* ModuleRegistry::get_module(name) != nullptr
Registered(m) == m \in DOMAIN modules

\* ModuleRegistry::register_module; register_handler waits for mutex_
RegisterModule(m, req) ==
    /\ ~Registered(m) => MutexFree
    /\ IF Registered(m)
       THEN /\ regCall' = RegCall("register", m, "module", {})
            /\ UNCHANGED <<permissions, handlers, modules, loadOrder>>
       ELSE /\ permissions' = grant_permissions(permissions, m, req)
            /\ handlers' = handlers \cup {m}
            /\ modules' = [n \in DOMAIN modules \cup {m} |->
                              IF n = m THEN NewModule(req) ELSE modules[n]]
            /\ loadOrder' = Append(loadOrder, m)
            /\ regCall' = RegCall("register", m, "none", {})
    /\ UNCHANGED loadSeq
    /\ UNCHANGED <<busRunning, subs, evq, bpc, bcur, btodo, bctl, emitted, delivered>>
    /\ UNCHANGED <<tqVars, threw, apiCall, permVars, llmVars, edgeVars>>

\* load_module, lines 67-81, in a registry mods: the loop over
\* module->dependencies() finds every dependency registered (get_module) and
\* Loaded or Enabled
DependenciesRegisteredIn(mods, m) ==
    \A d \in Dependencies(m) : d \in DOMAIN mods

DependenciesReadyIn(mods, m) ==
    \A d \in Dependencies(m) :
        d \in DOMAIN mods /\ mods[d].state \in {"Loaded", "Enabled"}

DependenciesReady(m) == DependenciesReadyIn(modules, m)

\* ModuleRegistry::load_module; loadOk: the load hook succeeds
LoadModule(m, loadOk) ==
    /\ IF ~Registered(m) \/ ~DependenciesReady(m)
       THEN /\ regCall' = RegCall("load", m, "module", {})
            /\ UNCHANGED <<modules, loadSeq>>
       ELSE IF ~loadOk
       THEN /\ modules' = [modules EXCEPT ![m].state = "Error"]
            /\ regCall' = RegCall("load", m, "hook", {"load"})
            /\ loadSeq' = KeepLoaded(loadSeq, modules')
       ELSE /\ modules' = [modules EXCEPT ![m].state = "Loaded"]
            /\ regCall' = RegCall("load", m, "none", {"load"})
            /\ loadSeq' = NowLoaded(loadSeq, m)
    /\ UNCHANGED loadOrder
    /\ UNCHANGED <<tqVars, busVars, threw, apiVars, permVars, llmVars, edgeVars>>

\* ModuleRegistry::enable_module; enableOk: the enable hook succeeds
EnableModule(m, enableOk) ==
    /\ IF ~Registered(m)
       THEN /\ regCall' = RegCall("enable", m, "module", {})
            /\ UNCHANGED modules
       ELSE IF modules[m].state # "Loaded"
       THEN /\ regCall' = RegCall("enable", m, "module", {})
            /\ UNCHANGED modules
       ELSE IF ~enableOk
       THEN /\ regCall' = RegCall("enable", m, "hook", {"enable"})
            /\ UNCHANGED modules
       ELSE /\ modules' = [modules EXCEPT ![m].state = "Enabled"]
            /\ regCall' = RegCall("enable", m, "none", {"enable"})
    /\ UNCHANGED <<loadOrder, loadSeq>>
    /\ UNCHANGED <<tqVars, busVars, threw, apiVars, permVars, llmVars, edgeVars>>

\* ModuleRegistry::disable_module; disableOk: the disable hook succeeds
DisableModule(m, disableOk) ==
    /\ IF ~Registered(m)
       THEN /\ regCall' = RegCall("disable", m, "none", {})
            /\ UNCHANGED modules
       ELSE IF modules[m].state # "Enabled"
       THEN /\ regCall' = RegCall("disable", m, "none", {})
            /\ UNCHANGED modules
       ELSE IF ~disableOk
       THEN /\ regCall' = RegCall("disable", m, "hook", {"disable"})
            /\ UNCHANGED modules
       ELSE /\ modules' = [modules EXCEPT ![m].state = "Disabled"]
            /\ regCall' = RegCall("disable", m, "none", {"disable"})
    /\ UNCHANGED <<loadOrder, loadSeq>>
    /\ UNCHANGED <<tqVars, busVars, threw, apiVars, permVars, llmVars, edgeVars>>

\* shutdown_module, lines 146-156, on a registered Module: the state it
\* leaves, the error it returns and the hooks it invokes; the result of
\* disable_module at line 147 is dropped
ShutdownOf(mod, disableOk, shutdownOk) ==
    [state |-> IF shutdownOk THEN "Unloaded"
               ELSE IF mod.state = "Enabled" /\ disableOk THEN "Disabled"
               ELSE mod.state,
     err |-> IF shutdownOk THEN "none" ELSE "hook",
     hooks |-> (IF mod.state = "Enabled" THEN {"disable"} ELSE {}) \cup {"shutdown"}]

\* ModuleRegistry::shutdown_module
ShutdownModule(m, disableOk, shutdownOk) ==
    /\ IF ~Registered(m)
       THEN /\ regCall' = RegCall("shutdown", m, "none", {})
            /\ UNCHANGED modules
       ELSE /\ modules' = [modules EXCEPT
                  ![m].state = ShutdownOf(modules[m], disableOk, shutdownOk).state]
            /\ regCall' = RegCall("shutdown", m,
                                  ShutdownOf(modules[m], disableOk, shutdownOk).err,
                                  ShutdownOf(modules[m], disableOk, shutdownOk).hooks)
    /\ loadSeq' = KeepLoaded(loadSeq, modules')
    /\ UNCHANGED loadOrder
    /\ UNCHANGED <<tqVars, busVars, threw, apiVars, permVars, llmVars, edgeVars>>

\* ModuleRegistry::unregister_module; unregister_handler waits for mutex_
UnregisterModule(m, disableOk, shutdownOk) ==
    /\ MutexFree
    /\ permissions' = revoke_permissions(permissions, m)
    /\ handlers' = handlers \ {m}
    /\ subs' = [ty \in DOMAIN subs |-> subs[ty] \ {m}]
    /\ modules' = [n \in DOMAIN modules \ {m} |-> modules[n]]
    /\ loadOrder' = SelectSeq(loadOrder, LAMBDA n : n # m)
    /\ regCall' = RegCall("unregister", m, "none",
                          IF Registered(m)
                          THEN ShutdownOf(modules[m], disableOk, shutdownOk).hooks
                          ELSE {})
    /\ loadSeq' = KeepLoaded(loadSeq, modules')
    /\ UNCHANGED <<busRunning, evq, bpc, bcur, btodo, bctl, emitted, delivered>>
    /\ UNCHANGED <<tqVars, threw, apiCall, permVars, llmVars, edgeVars>>

\* shutdown_all, lines 193-195: shutdown_module for load_order_[i] down to
\* the first entry
RECURSIVE ShutdownDownFrom(_, _, _, _)
ShutdownDownFrom(mods, i, disableOk, shutdownOk) ==
    IF i = 0 THEN mods
    ELSE ShutdownDownFrom(
             [mods EXCEPT ![loadOrder[i]].state =
                 ShutdownOf(mods[loadOrder[i]], disableOk[loadOrder[i]],
                            shutdownOk[loadOrder[i]]).state],
             i - 1, disableOk, shutdownOk)

\* the hooks those calls of shutdown_module invoke, in their order
RECURSIVE ShutdownSeqDownFrom(_, _, _, _)
ShutdownSeqDownFrom(mods, i, disableOk, shutdownOk) ==
    IF i = 0 THEN <<>>
    ELSE HookSeq(loadOrder[i],
                 ShutdownOf(mods[loadOrder[i]], disableOk[loadOrder[i]],
                            shutdownOk[loadOrder[i]]).hooks)
         \o ShutdownSeqDownFrom(mods, i - 1, disableOk, shutdownOk)

\* ModuleRegistry::shutdown_all; disableOk, shutdownOk: per module, whether
\* its hook succeeds
ShutdownAll(disableOk, shutdownOk) ==
    /\ modules' = ShutdownDownFrom(modules, Len(loadOrder), disableOk, shutdownOk)
    /\ regCall' = RegBulk("shutdown_all", "none", "none",
                          ShutdownSeqDownFrom(modules, Len(loadOrder),
                                              disableOk, shutdownOk))
    /\ loadSeq' = KeepLoaded(loadSeq, modules')
    /\ UNCHANGED loadOrder
    /\ UNCHANGED <<tqVars, busVars, threw, apiVars, permVars, llmVars, edgeVars>>

\* Kernel::load_modules, lines 281-283: if (!result) return result
AbortsNever(err) == FALSE

AbortsOn(err) == err # "none"

\* Kernel::load_modules, lines 278-284: load_module for load_order_[i] and
\* the entries after it, in a registry mods whose successful loads are ls;
\* seq: the load hooks invoked so far; err, name: the first failure so far.
\* The result is the registry, the loads, the hooks and the error returned
RECURSIVE LoadUpFrom(_, _, _, _, _, _, _)
LoadUpFrom(mods, ls, i, loadOk, seq, err, name) ==
    IF i > Len(loadOrder) \/ AbortsOn(err)
    THEN [mods |-> mods, ls |-> ls, seq |-> seq, err |-> err, name |-> name]
    ELSE LET n == loadOrder[i]
             first == IF err = "none" THEN n ELSE name
         IN  IF ~DependenciesReadyIn(mods, n)
             THEN LoadUpFrom(mods, ls, i + 1, loadOk, seq,
                             IF err = "none" THEN "module" ELSE err, first)
             ELSE IF ~loadOk[n]
             THEN LoadUpFrom([mods EXCEPT ![n].state = "Error"],
                             SelectSeq(ls, LAMBDA x : x # n), i + 1, loadOk,
                             Append(seq, <<n, "load">>),
                             IF err = "none" THEN "hook" ELSE err, first)
             ELSE LoadUpFrom([mods EXCEPT ![n].state = "Loaded"],
                             NowLoaded(ls, n), i + 1, loadOk,
                             Append(seq, <<n, "load">>), err, name)

\* Kernel::load_modules; loadOk: per module, whether its load hook succeeds
LoadModules(loadOk) ==
    LET r == LoadUpFrom(modules, loadSeq, 1, loadOk, <<>>, "none", "none")
    IN  /\ modules' = r.mods
        /\ loadSeq' = r.ls
        /\ regCall' = RegBulk("load_modules", r.name, r.err, r.seq)
        /\ UNCHANGED loadOrder
        /\ UNCHANGED <<tqVars, busVars, threw, apiVars, permVars, llmVars, edgeVars>>

\* the calls of the thread that owns the registry
RegistryNext ==
    \/ \E m \in Modules, req \in Declarable : RegisterModule(m, req)
    \/ \E loadOk \in [Modules -> BOOLEAN] : LoadModules(loadOk)
    \/ \E m \in Modules, ok \in BOOLEAN : LoadModule(m, ok)
    \/ \E m \in Modules, ok \in BOOLEAN : EnableModule(m, ok)
    \/ \E m \in Modules, ok \in BOOLEAN : DisableModule(m, ok)
    \/ \E m \in Modules, dOk \in BOOLEAN, sOk \in BOOLEAN : ShutdownModule(m, dOk, sOk)
    \/ \E m \in Modules, dOk \in BOOLEAN, sOk \in BOOLEAN : UnregisterModule(m, dOk, sOk)
    \/ \E dOk \in [Modules -> BOOLEAN], sOk \in [Modules -> BOOLEAN] : ShutdownAll(dOk, sOk)

\* the modules that call emit_event
Emitters == Modules \cap Sources

\* what the modules of the kernel-API specification declare
ApiDeclared ==
    {<<"m1", AllEvents>>, <<"m1", EventSubscribe>>,
     <<"m2", EventSubscribe>>, <<"m2", None>>}

\* registered modules that use the KernelAPI from their own threads and from
\* their handlers, the kernel emitting as "ipc", and the bus worker
KernelApiNext ==
    \/ \E d \in ApiDeclared : RegisterModule(d[1], d[2])
    \/ \E m \in Modules : UnregisterModule(m, TRUE, TRUE)
    \/ \E m \in Emitters, ty \in EventTypes :
          (TotalEmitted < MaxApiEvents /\ ApiEmitEvent(m, ty))
    \/ \E m \in Modules, ty \in EventTypes : ApiSubscribeEvent(m, ty)
    \/ \E ty \in EventTypes : (TotalEmitted < MaxApiEvents /\ Emit(ty, "ipc"))
    \/ BusStart
    \/ BusLoopCheck
    \/ BusWait
    \/ DeliverBegin
    \/ \E m \in Modules : DeliverOne(m)
    \/ \E m \in Emitters, ty \in EventTypes :
          (TotalEmitted < MaxApiEvents /\ HandlerEmits(m, ty))
    \/ \E m \in Modules, ty \in EventTypes, u \in RelockOutcomes : HandlerSubscribes(m, ty, u)
    \/ DeliverEnd

\* ------------------------------------------------------------------------
\* Part B: LlmModel, ModelManager, InferenceEngine
\* ------------------------------------------------------------------------

\* info_.context_length of a loaded slot, and the largest max_tokens of a
\* request
ContextLength == 6
MaxNewTokens == 5

\* calls of llama_sampler_sample one call of generate is followed through
MaxSamples == 6

\* requests waiting in task_queue_
MaxPending == 1

\* generate, line 225: the tokens of the context a prompt has to leave free
ContextReserve == 4

\* enum class LlmMode
LlmModes == {"Fast", "Deep"}

\* to_string(LlmMode)
to_string(mode) ==
    IF mode = "Fast" THEN "fast" ELSE IF mode = "Deep" THEN "deep" ELSE "unknown"

\* the reading of a configured or received mode string: "deep" is Deep,
\* everything else is Fast
ParseMode(text) == IF text = "deep" THEN "Deep" ELSE "Fast"

\* the mode strings a configuration or a switch_model message carries
ModeTexts == {"fast", "deep", "turbo"}

\* fast_model_ and deep_model_
Slots == {"fast_model", "deep_model"}

\* (mode == LlmMode::Fast) ? fast_model_ : deep_model_
SlotOf(mode) == IF mode = "Fast" THEN "fast_model" ELSE "deep_model"

\* the single worker of task_queue_, and a thread that calls generate_sync
LlmThreads == {"worker", "caller"}

\* the tokens a call of generate can meet after llama_sampler_sample:
\* an end-of-generation token; one llama_token_to_piece fails on; one whose
\* piece on_token answers with false; one whose piece completes a stop
\* sequence; one that is evaluated; one whose evaluation fails
TokenKinds == {"eog", "badpiece", "refused", "stopseq", "decoded", "decodefail"}

\* no call of generate made yet
NoCall ==
    [pc |-> "idle", slot |-> "none", maxTokens |-> 0, cancel |-> FALSE,
     nTokens |-> 0, nGenerated |-> 0, nCur |-> 0, sampled |-> 0,
     lateSampled |-> 0, lateAppended |-> 0, result |-> "none"]

\* the positions of a thread between the entry of LlmModel::generate and its
\* return, mutex_ held
InGenerate == {"loop", "sample", "token"}

EngCall(op, mode, text, err) ==
    [op |-> op, mode |-> mode, text |-> text, err |-> err,
     tick |-> 1 - engCall.tick]

LlmInit ==
    /\ initialized = FALSE
    /\ currentMode = "Fast"
    /\ slotLoaded = [s \in Slots |-> FALSE]
    /\ slotLock = [s \in Slots |-> "none"]
    /\ pending = 0
    /\ gen = [t \in LlmThreads |-> NoCall]
    /\ engCall = [op |-> "none", mode |-> "none", text |-> "none",
                  err |-> "none", tick |-> 0]

\* LlmModel::load, unload and is_loaded take mutex_ and wait for a generate
\* that holds it
LockWaitsNever(s) == TRUE

LockWaits(s) == slotLock[s] = "none"

\* ModelManager::load_model on the slots loaded: the slots and the error
\* ("llm": LlmModel::load failed); loadOk: the file is there and the runtime
\* loads it
load_model(loaded, mode, loadOk) ==
    IF loaded[SlotOf(mode)] \/ ~loadOk
    THEN [loaded |-> loaded, err |-> "llm"]
    ELSE [loaded |-> [loaded EXCEPT ![SlotOf(mode)] = TRUE], err |-> "none"]

\* InferenceEngine::initialize with ModelManager::initialize
EngineInitialize(text, loadOk) ==
    /\ ~initialized
    /\ LockWaits(SlotOf(ParseMode(text)))
    /\ currentMode' = ParseMode(text)
    /\ slotLoaded' = load_model(slotLoaded, ParseMode(text), loadOk).loaded
    /\ initialized' = (load_model(slotLoaded, ParseMode(text), loadOk).err = "none")
    /\ engCall' = EngCall("initialize", ParseMode(text), text,
                          load_model(slotLoaded, ParseMode(text), loadOk).err)
    /\ UNCHANGED <<slotLock, pending, gen>>
    /\ UNCHANGED <<tqVars, busVars, threw, apiVars, regVars, permVars, edgeVars>>

\* InferenceEngine::shutdown: task_queue_.stop() joins the worker and drops
\* what waits, ModelManager::shutdown unloads both slots
EngineShutdown ==
    /\ initialized
    /\ gen["worker"].pc = "idle"
    /\ \A s \in Slots : LockWaits(s)
    /\ pending' = 0
    /\ slotLoaded' = [s \in Slots |-> FALSE]
    /\ initialized' = FALSE
    /\ engCall' = EngCall("shutdown", "none", "none", "none")
    /\ UNCHANGED <<currentMode, slotLock, gen>>
    /\ UNCHANGED <<tqVars, busVars, threw, apiVars, regVars, permVars, edgeVars>>

\* the slots and the mode switch_mode leaves, and the error it returns
switch_mode_evicts(loaded, cur, mode, loadOk) ==
    [loaded |-> [s \in Slots |-> s = SlotOf(mode) /\ (loaded[s] \/ loadOk)],
     mode |-> IF loaded[SlotOf(mode)] \/ loadOk THEN mode ELSE cur,
     err |-> IF loaded[SlotOf(mode)] \/ loadOk THEN "none" ELSE "llm"]

switch_mode_commits_first(loaded, cur, mode, loadOk) ==
    IF mode = cur /\ loaded[SlotOf(cur)]
    THEN [loaded |-> loaded, mode |-> cur, err |-> "none"]
    ELSE [loaded |-> load_model(loaded, mode, loadOk \/ loaded[SlotOf(mode)]).loaded,
          mode |-> mode,
          err |-> IF loaded[SlotOf(mode)] THEN "none"
                  ELSE load_model(loaded, mode, loadOk).err]

switch_mode(loaded, cur, mode, loadOk) ==
    IF mode = cur /\ loaded[SlotOf(cur)]
    THEN [loaded |-> loaded, mode |-> cur, err |-> "none"]
    ELSE IF ~loaded[SlotOf(mode)]
    THEN IF load_model(loaded, mode, loadOk).err # "none"
         THEN [loaded |-> loaded, mode |-> cur,
               err |-> load_model(loaded, mode, loadOk).err]
         ELSE [loaded |-> load_model(loaded, mode, loadOk).loaded,
               mode |-> mode, err |-> "none"]
    ELSE [loaded |-> loaded, mode |-> mode, err |-> "none"]

\* InferenceEngine::switch_mode -> ModelManager::switch_mode; the calls of
\* is_loaded and load are on the slot of mode
SwitchMode(mode, loadOk) ==
    /\ LockWaits(SlotOf(mode))
    /\ slotLoaded' = switch_mode(slotLoaded, currentMode, mode, loadOk).loaded
    /\ currentMode' = switch_mode(slotLoaded, currentMode, mode, loadOk).mode
    /\ engCall' = EngCall("switch_mode", mode, "none",
                          switch_mode(slotLoaded, currentMode, mode, loadOk).err)
    /\ UNCHANGED <<initialized, slotLock, pending, gen>>
    /\ UNCHANGED <<tqVars, busVars, threw, apiVars, regVars, permVars, edgeVars>>

\* the handler of the message switch_model whose data has "mode" -> text
SwitchModelMessage(text, loadOk) ==
    /\ LockWaits(SlotOf(ParseMode(text)))
    /\ slotLoaded' =
          switch_mode(slotLoaded, currentMode, ParseMode(text), loadOk).loaded
    /\ currentMode' =
          switch_mode(slotLoaded, currentMode, ParseMode(text), loadOk).mode
    /\ engCall' = EngCall("switch_model", ParseMode(text), text,
          switch_mode(slotLoaded, currentMode, ParseMode(text), loadOk).err)
    /\ UNCHANGED <<initialized, slotLock, pending, gen>>
    /\ UNCHANGED <<tqVars, busVars, threw, apiVars, regVars, permVars, edgeVars>>

\* the handler of the message get_status: llm_mode of the reply
GetStatus ==
    /\ engCall' = EngCall("get_status", currentMode, to_string(currentMode), "none")
    /\ UNCHANGED <<initialized, currentMode, slotLoaded, slotLock, pending, gen>>
    /\ UNCHANGED <<tqVars, busVars, threw, apiVars, regVars, permVars, edgeVars>>

\* InferenceEngine::submit
EngineSubmit ==
    /\ pending' = pending + 1
    /\ UNCHANGED <<initialized, currentMode, slotLoaded, slotLock, gen, engCall>>
    /\ UNCHANGED <<tqVars, busVars, threw, apiVars, regVars, permVars, edgeVars>>

\* ModelManager::generate, line 475: get_active_model() reads current_mode_,
\* then LlmModel::generate is entered and waits for mutex_
CallGenerate(maxTokens) ==
    [NoCall EXCEPT !.pc = "wait", !.slot = SlotOf(currentMode),
                   !.maxTokens = maxTokens]

\* the worker of task_queue_ starts a submitted request
WorkerTake(maxTokens) ==
    /\ initialized
    /\ pending > 0
    /\ gen["worker"].pc = "idle"
    /\ pending' = pending - 1
    /\ gen' = [gen EXCEPT !["worker"] = CallGenerate(maxTokens)]
    /\ UNCHANGED <<initialized, currentMode, slotLoaded, slotLock, engCall>>
    /\ UNCHANGED <<tqVars, busVars, threw, apiVars, regVars, permVars, edgeVars>>

\* InferenceEngine::generate_sync on the thread of its caller
GenerateSync(maxTokens) ==
    /\ gen["caller"].pc = "idle"
    /\ gen' = [gen EXCEPT !["caller"] = CallGenerate(maxTokens)]
    /\ UNCHANGED <<initialized, currentMode, slotLoaded, slotLock, pending, engCall>>
    /\ UNCHANGED <<tqVars, busVars, threw, apiVars, regVars, permVars, edgeVars>>

\* the owner of the request sets its cancel flag
SetCancel(t) ==
    /\ gen[t].pc \in InGenerate
    /\ ~gen[t].cancel
    /\ gen' = [gen EXCEPT ![t].cancel = TRUE]
    /\ UNCHANGED <<initialized, currentMode, slotLoaded, slotLock, pending, engCall>>
    /\ UNCHANGED <<tqVars, busVars, threw, apiVars, regVars, permVars, edgeVars>>

\* the return of generate with result r: lock goes out of scope
Returned(t, r) == [gen[t] EXCEPT !.pc = "idle", !.result = r]

\* generate, lines 195-262: nTokens is what llama_tokenize returns (-1: it
\* fails), promptOk whether the prompt is evaluated
GenerateEnter(t, nTokens, promptOk) ==
    /\ gen[t].pc = "wait"
    /\ slotLock[gen[t].slot] = "none"
    /\ IF ~slotLoaded[gen[t].slot]
       THEN /\ gen' = [gen EXCEPT ![t] = Returned(t, "err10")]
            /\ UNCHANGED slotLock
       ELSE IF nTokens < 0
       THEN /\ gen' = [gen EXCEPT ![t] = Returned(t, "err11")]
            /\ UNCHANGED slotLock
       ELSE IF nTokens > ContextLength - ContextReserve
       THEN /\ gen' = [gen EXCEPT ![t] = Returned(t, "err12")]
            /\ UNCHANGED slotLock
       ELSE IF ~promptOk
       THEN /\ gen' = [gen EXCEPT ![t] = Returned(t, "err13")]
            /\ UNCHANGED slotLock
       ELSE /\ gen' = [gen EXCEPT ![t].pc = "loop", ![t].nTokens = nTokens,
                                  ![t].nGenerated = 0, ![t].nCur = nTokens]
            /\ slotLock' = [slotLock EXCEPT ![gen[t].slot] = t]
    /\ UNCHANGED <<initialized, currentMode, slotLoaded, pending, engCall>>
    /\ UNCHANGED <<tqVars, busVars, threw, apiVars, regVars, permVars, edgeVars>>

\* generate, lines 266-267: the cancel flag is there and set
CancelRequestedNever(flag) == FALSE

CancelRequested(flag) == flag

\* generate, lines 264-270: the loop condition and the cancel check; leaving
\* the loop, generate returns trim(output) at line 330
LoopHead(t) ==
    /\ gen[t].pc = "loop"
    /\ IF gen[t].nGenerated >= gen[t].maxTokens \/ CancelRequested(gen[t].cancel)
       THEN /\ gen' = [gen EXCEPT ![t] = Returned(t, "ok")]
            /\ slotLock' = [slotLock EXCEPT ![gen[t].slot] = "none"]
       ELSE /\ gen' = [gen EXCEPT ![t].pc = "sample"]
            /\ UNCHANGED slotLock
    /\ UNCHANGED <<initialized, currentMode, slotLoaded, pending, engCall>>
    /\ UNCHANGED <<tqVars, busVars, threw, apiVars, regVars, permVars, edgeVars>>

\* generate, line 273: llama_sampler_sample
Sample(t) ==
    /\ gen[t].pc = "sample"
    /\ gen' = [gen EXCEPT ![t].pc = "token",
                          ![t].sampled = gen[t].sampled + 1,
                          ![t].lateSampled =
                              gen[t].lateSampled + (IF gen[t].cancel THEN 1 ELSE 0)]
    /\ UNCHANGED <<initialized, currentMode, slotLoaded, slotLock, pending, engCall>>
    /\ UNCHANGED <<tqVars, busVars, threw, apiVars, regVars, permVars, edgeVars>>

\* llama_decode of the one-token batch at position pos, line 319: the runtime
\* evaluates a token only at a position inside its context
KvHasRoom(pos) == pos < ContextLength

\* the call after the piece of the token was appended, lines 289-291
Appended(t) ==
    [gen[t] EXCEPT !.nGenerated = gen[t].nGenerated + 1,
                   !.lateAppended =
                       gen[t].lateAppended + (IF gen[t].cancel THEN 1 ELSE 0)]

\* generate, lines 276-322, for a sampled token of kind k
Token(t, k) ==
    /\ gen[t].pc = "token"
    /\ k = "decoded" => KvHasRoom(gen[t].nCur)
    /\ IF k = "eog"
       THEN /\ gen' = [gen EXCEPT ![t] = Returned(t, "ok")]
            /\ slotLock' = [slotLock EXCEPT ![gen[t].slot] = "none"]
       ELSE IF k = "badpiece"
       THEN /\ gen' = [gen EXCEPT ![t].pc = "loop"]
            /\ UNCHANGED slotLock
       ELSE IF k \in {"refused", "stopseq"}
       THEN /\ gen' = [gen EXCEPT ![t] =
                          [Appended(t) EXCEPT !.pc = "idle", !.result = "ok"]]
            /\ slotLock' = [slotLock EXCEPT ![gen[t].slot] = "none"]
       ELSE IF k = "decoded"
       THEN /\ gen' = [gen EXCEPT ![t] =
                          [Appended(t) EXCEPT !.pc = "loop",
                                              !.nCur = gen[t].nCur + 1]]
            /\ UNCHANGED slotLock
       ELSE /\ gen' = [gen EXCEPT ![t] =
                          [Appended(t) EXCEPT !.pc = "idle", !.result = "err14",
                                              !.nCur = gen[t].nCur + 1]]
            /\ slotLock' = [slotLock EXCEPT ![gen[t].slot] = "none"]
    /\ UNCHANGED <<initialized, currentMode, slotLoaded, pending, engCall>>
    /\ UNCHANGED <<tqVars, busVars, threw, apiVars, regVars, permVars, edgeVars>>

\* one call of generate at a time, with every request and every runtime
GenerateNext ==
    \/ \E text \in ModeTexts, ok \in BOOLEAN : EngineInitialize(text, ok)
    \/ \E n \in 0..MaxNewTokens : GenerateSync(n)
    \/ \E n \in (0 - 1)..(ContextLength - ContextReserve + 1), ok \in BOOLEAN :
          GenerateEnter("caller", n, ok)
    \/ SetCancel("caller")
    \/ LoopHead("caller")
    \/ (gen["caller"].sampled < MaxSamples /\ Sample("caller"))
    \/ \E k \in TokenKinds : Token("caller", k)

\* the engine used from several threads: submitted requests run on the
\* worker, generate_sync on the thread of its caller, the boundary adapter
\* switches the mode and asks for the status
EngineNext ==
    \/ \E text \in ModeTexts, ok \in BOOLEAN : EngineInitialize(text, ok)
    \/ EngineShutdown
    \/ \E mode \in LlmModes, ok \in BOOLEAN : SwitchMode(mode, ok)
    \/ \E text \in ModeTexts, ok \in BOOLEAN : SwitchModelMessage(text, ok)
    \/ GetStatus
    \/ (pending < MaxPending /\ EngineSubmit)
    \/ WorkerTake(1)
    \/ GenerateSync(1)
    \/ \E t \in LlmThreads : GenerateEnter(t, 1, TRUE)
    \/ \E t \in LlmThreads : LoopHead(t)
    \/ \E t \in LlmThreads : Sample(t)
    \/ \E t \in LlmThreads, k \in {"eog", "decoded", "decodefail"} : Token(t, k)

\* ------------------------------------------------------------------------
\* Part G: one LlmModel and its two handles
\* ------------------------------------------------------------------------

\* threads that call load and unload on the same LlmModel
LmThreads == {"t1", "t2"}

\* the codes of the errors of load, all of ErrorCategory::LLM: already
\* loaded, file not found, weights not loaded, context not created
LoadErrors == 1..4

\* ret: what the last load of the thread returned (0: success; -1: it has
\* not returned)
LmInit ==
    lm = [model |-> FALSE, ctx |-> FALSE, lock |-> "none",
          pc |-> [t \in LmThreads |-> "idle"],
          ret |-> [t \in LmThreads |-> 0 - 1]]

\* load, lines 80-91: mutex_ is taken; a model_ that is set or a file that is
\* not there end the call
LoadEnter(t, fileExists) ==
    /\ lm.pc[t] = "idle"
    /\ lm.lock = "none"
    /\ lm' = IF lm.model THEN [lm EXCEPT !.ret[t] = 1]
             ELSE IF ~fileExists THEN [lm EXCEPT !.ret[t] = 2]
             ELSE [lm EXCEPT !.lock = t, !.pc[t] = "weights", !.ret[t] = 0 - 1]
    /\ UNCHANGED <<tqVars, busVars, threw, apiVars, regVars, permVars, llmVars, ipcVars>>

\* load, lines 112-116: llama_load_model_from_file
LoadWeights(t, ok) ==
    /\ lm.pc[t] = "weights"
    /\ lm' = IF ok THEN [lm EXCEPT !.model = TRUE, !.pc[t] = "context"]
             ELSE [lm EXCEPT !.model = FALSE, !.lock = "none", !.pc[t] = "idle",
                              !.ret[t] = 3]
    /\ UNCHANGED <<tqVars, busVars, threw, apiVars, regVars, permVars, llmVars, ipcVars>>

\* load, lines 129-130: what is left of model_ when the context was not
\* created
WeightsAreKept(model) == model
WeightsAfterNoContext(model) == FALSE

\* load, lines 127-147: llama_new_context_with_model
LoadContext(t, ok) ==
    /\ lm.pc[t] = "context"
    /\ lm' = IF ok
             THEN [lm EXCEPT !.ctx = TRUE, !.lock = "none", !.pc[t] = "idle",
                              !.ret[t] = 0]
             ELSE [lm EXCEPT !.ctx = FALSE, !.model = WeightsAfterNoContext(lm.model),
                              !.lock = "none", !.pc[t] = "idle", !.ret[t] = 4]
    /\ UNCHANGED <<tqVars, busVars, threw, apiVars, regVars, permVars, llmVars, ipcVars>>

\* unload, line 154: mutex_ is taken
UnloadEnter(t) ==
    /\ lm.pc[t] = "idle"
    /\ lm.lock = "none"
    /\ lm' = [lm EXCEPT !.lock = t, !.pc[t] = "freectx"]
    /\ UNCHANGED <<tqVars, busVars, threw, apiVars, regVars, permVars, llmVars, ipcVars>>

\* unload, lines 156-159: llama_free(ctx_)
UnloadContext(t) ==
    /\ lm.pc[t] = "freectx"
    /\ lm' = [lm EXCEPT !.ctx = FALSE, !.pc[t] = "freeweights"]
    /\ UNCHANGED <<tqVars, busVars, threw, apiVars, regVars, permVars, llmVars, ipcVars>>

\* unload, lines 161-170: llama_free_model(model_), and the return
UnloadWeights(t) ==
    /\ lm.pc[t] = "freeweights"
    /\ lm' = [lm EXCEPT !.model = FALSE, !.lock = "none", !.pc[t] = "idle"]
    /\ UNCHANGED <<tqVars, busVars, threw, apiVars, regVars, permVars, llmVars, ipcVars>>

\* two threads that load and unload one LlmModel
LlmModelNext ==
    \/ \E t \in LmThreads, fileExists \in BOOLEAN : LoadEnter(t, fileExists)
    \/ \E t \in LmThreads, ok \in BOOLEAN : LoadWeights(t, ok)
    \/ \E t \in LmThreads, ok \in BOOLEAN : LoadContext(t, ok)
    \/ \E t \in LmThreads : UnloadEnter(t)
    \/ \E t \in LmThreads : UnloadContext(t)
    \/ \E t \in LmThreads : UnloadWeights(t)

\* ------------------------------------------------------------------------
\* Part F: Kernel, the handler of user_message and the outbound queue
\* ------------------------------------------------------------------------

\* responses waiting in outbound_queue_
MaxOutbound == 2

\* texts are sequences of characters

\* trim, common.hpp line 440: the characters it strips (the vertical tab,
\* which it strips too, is not among the characters of the texts here)
Whitespace == {" ", "\t", "\n", "\r", "\f"}

\* find_first_not_of and find_last_not_of on the whitespace (0: none)
FirstNotOf(s) ==
    IF \A i \in 1..Len(s) : s[i] \in Whitespace THEN 0
    ELSE CHOOSE i \in 1..Len(s) :
            s[i] \notin Whitespace /\ \A j \in 1..(i - 1) : s[j] \in Whitespace
LastNotOf(s) ==
    IF \A i \in 1..Len(s) : s[i] \in Whitespace THEN 0
    ELSE CHOOSE i \in 1..Len(s) :
            s[i] \notin Whitespace /\ \A j \in (i + 1)..Len(s) : s[j] \in Whitespace

\* trim
trim_keeps(s) == s
trim(s) == IF FirstNotOf(s) = 0 THEN <<>> ELSE SubSeq(s, FirstNotOf(s), LastNotOf(s))

\* to_lower: c += 32 for 'A' <= c <= 'Z'
UpperCase == <<"A", "B", "C", "D", "E", "F", "G", "H", "I", "J", "K", "L", "M", "N", "O", "P", "Q", "R", "S", "T", "U", "V", "W", "X", "Y", "Z">>
LowerCase == <<"a", "b", "c", "d", "e", "f", "g", "h", "i", "j", "k", "l", "m", "n", "o", "p", "q", "r", "s", "t", "u", "v", "w", "x", "y", "z">>
to_lower(s) ==
    [i \in 1..Len(s) |->
        IF \E k \in 1..Len(UpperCase) : UpperCase[k] = s[i]
        THEN LowerCase[CHOOSE k \in 1..Len(UpperCase) : UpperCase[k] = s[i]]
        ELSE s[i]]

\* process_user_message, lines 476-487: the keys of greetings, and the value
\* of every one of them
Greetings ==
    {<<"h", "i">>,
     <<"h", "e", "l", "l", "o">>,
     <<"h", "e", "y">>,
     <<"s", "u", "p">>,
     <<"y", "o">>,
     <<"g", "r", "e", "e", "t", "i", "n", "g", "s">>,
     <<"h", "o", "w", "d", "y">>,
     <<"g", "o", "o", "d", " ", "m", "o", "r", "n", "i", "n", "g">>,
     <<"g", "o", "o", "d", " ", "a", "f", "t", "e", "r", "n", "o", "o", "n">>,
     <<"g", "o", "o", "d", " ", "e", "v", "e", "n", "i", "n", "g">>}
Hello == <<"H", "e", "l", "l", "o", "!">>

\* process_user_message, line 470
NotAvailable == <<"L", "L", "M", " ", "n", "o", "t", " ", "a", "v", "a", "i", "l", "a", "b", "l", "e", ".">>

\* the on_complete of process_user_message, line 517: "Error: " before
\* the message of the error
ErrorPrefix == <<"E", "r", "r", "o", "r", ":", " ">>

\* the messages of the errors ModelManager::generate returns to a request of
\* the kernel (codes 10 and 14)
ErrorMessages ==
    {<<"M", "o", "d", "e", "l", " ", "n", "o", "t", " ", "l", "o", "a", "d", "e", "d">>,
     <<"F", "a", "i", "l", "e", "d", " ", "d", "u", "r", "i", "n", "g", " ", "t", "o", "k", "e", "n", " ", "g", "e", "n", "e", "r", "a", "t", "i", "o", "n">>}

\* the texts of inbound user messages that are followed
UserTexts ==
    {<<"H", "i">>, <<" ", "y", "o", "\n">>, <<"H", "E", "Y">>,
     <<"h", "i", " ", "t", "h", "e", "r", "e">>, <<"s", "u", "p", "?">>,
     <<" ", " ">>, <<"G", "o", "o", "d", " ", "M", "o", "r", "n", "i", "n", "g", " ">>}

\* what the generator has put into output when LlmModel::generate reaches
\* its return
RawOutputs ==
    {<<" ", "o", "k", "\n">>, <<"o", "k">>, <<"a", " ", "b", " ">>, <<>>}

\* send_llm_response, lines 528-530: the message built
LlmResponse(text) == [type |-> "llm_response", message |-> text]

IpcCallOf(op, text, err) ==
    [op |-> op, text |-> text, err |-> err, tick |-> 1 - ipcCall.tick]

IpcInit ==
    /\ outbound = <<>>
    /\ ipcCall = [op |-> "none", text |-> <<>>, err |-> <<>>, tick |-> 0]

\* the handler of user_message (lines 424-436) with process_user_message for
\* a message whose data has "message" -> text: a response is queued, or
\* InferenceEngine::submit puts a request into task_queue_
UserMessage(text) ==
    /\ IF ~initialized
       THEN /\ outbound' = Append(outbound, LlmResponse(NotAvailable))
            /\ UNCHANGED pending
       ELSE IF trim(to_lower(text)) \in Greetings
       THEN /\ outbound' = Append(outbound, LlmResponse(Hello))
            /\ UNCHANGED pending
       ELSE /\ pending' = pending + 1
            /\ UNCHANGED outbound
    /\ ipcCall' = IpcCallOf("user_message", text, <<>>)
    /\ UNCHANGED <<initialized, currentMode, slotLoaded, slotLock, gen, engCall>>
    /\ UNCHANGED <<tqVars, busVars, threw, apiVars, regVars, permVars, lm,
                   ipcMsg, ipcJson, ipcParsed>>

\* LlmModel::generate, line 330, and the error returns: the result of a
\* generation whose output is raw and whose error message is err (<<>>: it
\* succeeds)
GenerateResult(raw, err) ==
    IF err = <<>> THEN [ok |-> TRUE, text |-> trim(raw)]
    ELSE [ok |-> FALSE, text |-> err]

\* the on_complete of process_user_message, lines 513-519: the text of the
\* response
CompletionText(result) ==
    IF result.ok THEN result.text ELSE ErrorPrefix \o result.text

\* the worker of task_queue_ runs the closure of InferenceEngine::submit
\* (lines 526-532) for a request of the kernel: generate returns, on_complete
\* queues the response
JobCompletes(raw, err) ==
    /\ initialized
    /\ pending > 0
    /\ gen["worker"].pc = "idle"
    /\ pending' = pending - 1
    /\ outbound' = Append(outbound, LlmResponse(CompletionText(GenerateResult(raw, err))))
    /\ ipcCall' = IpcCallOf("complete", raw, err)
    /\ UNCHANGED <<initialized, currentMode, slotLoaded, slotLock, gen, engCall>>
    /\ UNCHANGED <<tqVars, busVars, threw, apiVars, regVars, permVars, lm,
                   ipcMsg, ipcJson, ipcParsed>>

\* send_queued_messages, lines 380-388: the front of outbound_queue_ is
\* taken and handed to send_message
SendQueued ==
    /\ outbound # <<>>
    /\ outbound' = Tail(outbound)
    /\ UNCHANGED ipcCall
    /\ UNCHANGED <<tqVars, busVars, threw, apiVars, regVars, permVars, llmVars, lm,
                   ipcMsg, ipcJson, ipcParsed>>

\* the kernel at its boundary: the engine is initialized and shut down,
\* user messages come in, the worker completes requests, responses go out
KernelMsgNext ==
    \/ \E text \in ModeTexts, ok \in BOOLEAN : EngineInitialize(text, ok)
    \/ EngineShutdown
    \/ \E text \in UserTexts :
          (Len(outbound) < MaxOutbound /\ pending < MaxPending /\ UserMessage(text))
    \/ \E raw \in RawOutputs, err \in ErrorMessages \cup {<<>>} :
          (Len(outbound) < MaxOutbound /\ JobCompletes(raw, err))
    \/ SendQueued

\* ------------------------------------------------------------------------
\* Part H: IpcMessage, to_json and from_json
\* ------------------------------------------------------------------------

\* the longest type and value of the messages followed
MaxTextLen == 2

\* characters of the texts of a message: a letter, the double quote, the
\* backslash and the braces
Chars == {"a", "\"", "\\", "{", "}"}

\* the texts over Chars of length up to n
TextsUpTo(n) == UNION {[1..k -> Chars] : k \in 0..n}

\* the messages followed: a type, and data with no entry or with one entry
\* whose key has at most one character
Messages ==
    {[type |-> ty, data |-> d] :
        ty \in TextsUpTo(MaxTextLen),
        d \in {<<>>} \cup
              {[x \in {k} |-> v] : k \in TextsUpTo(1), v \in TextsUpTo(MaxTextLen)}}

\* std::string_view::npos; adding one to it gives 0
Npos == 0 - 1

\* s.find(pat, from), positions counted from 0
Find(s, pat, from) ==
    LET hits == {i \in from..(Len(s) - Len(pat)) :
                    i >= 0 /\ SubSeq(s, i + 1, i + Len(pat)) = pat}
    IN IF hits = {} THEN Npos
       ELSE CHOOSE i \in hits : \A j \in hits : i <= j

\* s.substr(pos, n)
Substr(s, pos, n) == SubSeq(s, pos + 1, IF pos + n > Len(s) THEN Len(s) ELSE pos + n)

\* escape_json, lines 100-114, for one character and for a text
EscapeChar(c) ==
    IF c = "\"" THEN <<"\\", "\"">>
    ELSE IF c = "\\" THEN <<"\\", "\\">>
    ELSE IF c = "\n" THEN <<"\\", "n">>
    ELSE IF c = "\r" THEN <<"\\", "r">>
    ELSE IF c = "\t" THEN <<"\\", "t">>
    ELSE <<c>>

RECURSIVE escape_json(_)
escape_json(s) ==
    IF s = <<>> THEN <<>> ELSE EscapeChar(Head(s)) \o escape_json(Tail(s))

\* unescape_json, lines 116-134
RECURSIVE unescape_json(_)
unescape_json(s) ==
    IF s = <<>> THEN <<>>
    ELSE IF s[1] = "\\" /\ Len(s) > 1
    THEN IF s[2] = "\"" THEN <<"\"">> \o unescape_json(SubSeq(s, 3, Len(s)))
         ELSE IF s[2] = "\\" THEN <<"\\">> \o unescape_json(SubSeq(s, 3, Len(s)))
         ELSE IF s[2] = "n" THEN <<"\n">> \o unescape_json(SubSeq(s, 3, Len(s)))
         ELSE IF s[2] = "r" THEN <<"\r">> \o unescape_json(SubSeq(s, 3, Len(s)))
         ELSE IF s[2] = "t" THEN <<"\t">> \o unescape_json(SubSeq(s, 3, Len(s)))
         ELSE <<s[1]>> \o unescape_json(Tail(s))
    ELSE <<s[1]>> \o unescape_json(Tail(s))

\* the pieces of text to_json writes and from_json looks for
Quote == <<"\"">>
TypeKey == <<"\"", "t", "y", "p", "e", "\"", ":">>
DataKey == <<"\"", "d", "a", "t", "a", "\"", ":", "{">>

\* to_json, lines 36-40: the entries of data, a comma between two; the order
\* is that of the unordered_map
RECURSIVE PairsJson(_, _)
PairsJson(d, keys) ==
    IF keys = {} THEN <<>>
    ELSE LET k == CHOOSE x \in keys : TRUE
         IN Quote \o escape_json(k) \o Quote \o <<":">> \o
            Quote \o escape_json(d[k]) \o Quote \o
            (IF keys = {k} THEN <<>> ELSE <<",">> \o PairsJson(d, keys \ {k}))

\* to_json, lines 33-43
to_json(m) ==
    <<"{">> \o TypeKey \o Quote \o escape_json(m.type) \o Quote \o <<",">> \o
    DataKey \o PairsJson(m.data, DOMAIN m.data) \o <<"}", "}">>

\* data with key -> value set
WithEntry(d, key, value) ==
    [x \in DOMAIN d \cup {key} |-> IF x = key THEN value ELSE d[x]]

\* from_json, lines 75-94: the loop over data_content from pos on
RECURSIVE ParsePairs(_, _, _)
ParsePairs(content, pos, d) ==
    IF pos >= Len(content) THEN d
    ELSE LET key_start == Find(content, Quote, pos)
             key_end == Find(content, Quote, key_start + 1)
             val_start == Find(content, Quote, key_end + 2)
             val_end == Find(content, Quote, val_start + 1)
         IN IF key_start = Npos THEN d
            ELSE IF key_end = Npos THEN d
            ELSE IF val_start = Npos THEN d
            ELSE IF val_end = Npos THEN d
            ELSE ParsePairs(content, val_end + 1,
                    WithEntry(d,
                        unescape_json(Substr(content, key_start + 1, key_end - key_start - 1)),
                        unescape_json(Substr(content, val_start + 1, val_end - val_start - 1))))

\* std::nullopt, and a message from_json returns
Nullopt == [state |-> "nullopt", type |-> <<>>, data |-> <<>>]
Parsed(ty, d) == [state |-> "message", type |-> ty, data |-> d]

\* from_json, lines 48-97
from_json(json) ==
    LET type_start == Find(json, TypeKey, 0)
        type_val_start == Find(json, Quote, type_start + 7)
        type_val_end == Find(json, Quote, type_val_start + 1)
        ty == Substr(json, type_val_start + 1, type_val_end - type_val_start - 1)
        data_start == Find(json, DataKey, 0)
        data_obj_start == Find(json, <<"{">>, data_start)
        data_obj_end == Find(json, <<"}">>, data_obj_start)
    IN IF type_start = Npos THEN Nullopt
       ELSE IF type_val_start = Npos \/ type_val_end = Npos THEN Nullopt
       ELSE IF data_start = Npos THEN Parsed(ty, <<>>)
       ELSE IF data_obj_start = Npos \/ data_obj_end = Npos THEN Parsed(ty, <<>>)
       ELSE Parsed(ty, ParsePairs(Substr(json, data_obj_start + 1,
                                         data_obj_end - data_obj_start - 1), 0, <<>>))

\* no message is serialized yet
JsonIdle ==
    /\ ipcMsg = [type |-> <<>>, data |-> <<>>]
    /\ ipcJson = <<>>
    /\ ipcParsed = [state |-> "none", type |-> <<>>, data |-> <<>>]

\* send_message, line 216: the message is serialized
Serialize ==
    /\ ipcJson = <<>>
    /\ ipcJson' = to_json(ipcMsg)
    /\ UNCHANGED <<ipcMsg, ipcParsed, outbound, ipcCall>>
    /\ UNCHANGED <<tqVars, busVars, threw, apiVars, regVars, permVars, llmVars, lm>>

\* process_message, line 356: the text received is parsed
Parse ==
    /\ ipcJson # <<>>
    /\ ipcParsed.state = "none"
    /\ ipcParsed' = from_json(ipcJson)
    /\ UNCHANGED <<ipcMsg, ipcJson, outbound, ipcCall>>
    /\ UNCHANGED <<tqVars, busVars, threw, apiVars, regVars, permVars, llmVars, lm>>

\* a message goes through to_json and the text through from_json
JsonNext ==
    \/ Serialize
    \/ Parse

\* ------------------------------------------------------------------------
\* The specifications
\* ------------------------------------------------------------------------

\* everything of the kernel but the boundary message
KernelIdle ==
    /\ threw = {}
    /\ ApiInit
    /\ RegInit
    /\ LlmInit
    /\ LmInit
    /\ IpcInit

KernelInit ==
    /\ KernelIdle
    /\ JsonIdle

\* has_permission has not been called
PermIdle ==
    /\ permSet = None
    /\ permCheck = None
    /\ permResult = "none"

\* has_permission is about to be called with any two values of the vocabulary
PermInit ==
    /\ TQInit
    /\ BusInit
    /\ KernelInit
    /\ permSet \in Vocabulary
    /\ permCheck \in Vocabulary
    /\ permResult = "none"

Init == TQInit /\ BusInit /\ KernelInit /\ PermIdle

\* a boundary message, any of those followed, is about to be serialized
JsonInit ==
    /\ TQInit
    /\ BusInit
    /\ KernelIdle
    /\ PermIdle
    /\ ipcMsg \in Messages
    /\ ipcJson = <<>>
    /\ ipcParsed = [state |-> "none", type |-> <<>>, data |-> <<>>]

TaskQueueSpec == Init /\ [][TQNext]_vars

TaskResultSpec == Init /\ [][TQResultNext]_vars

TaskOrderSpec == Init /\ [][TQOrderNext]_vars

TaskNestedSpec == Init /\ [][TQNestedNext]_vars

EventBusSpec == Init /\ [][BusNext]_vars

BusFaultSpec == Init /\ [][BusFaultNext]_vars

KernelApiSpec == Init /\ [][KernelApiNext]_vars

RegistrySpec == Init /\ [][RegistryNext]_vars

GenerateSpec == Init /\ [][GenerateNext]_vars

EngineSpec == Init /\ [][EngineNext]_vars

\* the steps of the worker thread of task_queue_
WorkerRuns ==
    \/ WorkerTake(1)
    \/ GenerateEnter("worker", 1, TRUE)
    \/ LoopHead("worker")
    \/ Sample("worker")
    \/ \E k \in {"eog", "decoded", "decodefail"} : Token("worker", k)

\* the engine with a worker thread that goes on whenever it can
EngineFairSpec == Init /\ [][EngineNext]_vars /\ WF_vars(WorkerRuns)

LlmModelSpec == Init /\ [][LlmModelNext]_vars

KernelMsgSpec == Init /\ [][KernelMsgNext]_vars

JsonSpec == JsonInit /\ [][JsonNext]_vars

PermissionSpec == PermInit /\ [][PermNext]_vars

\* ------------------------------------------------------------------------
\* Properties of the TaskQueue
\* ------------------------------------------------------------------------

\* the changes of a status cell the task life cycle allows
AllowedTransitions ==
    {<<"Pending", "Running">>, <<"Pending", "Cancelled">>,
     <<"Running", "Completed">>, <<"Running", "Cancelled">>,
     <<"Running", "Failed">>}

\* C1: a status cell changes only along Pending->Running->{Completed,
\* Cancelled, Failed} or Pending->Cancelled; a cell that holds a terminal
\* value never changes again, whatever cancel(), start() or stop() do later.
C1_StatusTransitions ==
    [][\A t \in DOMAIN status :
          status'[t] # status[t] => <<status[t], status'[t]>> \in AllowedTransitions]_vars

\* one task failed and was cancelled afterwards or while it ran, another one
\* was cancelled in time, and the queue has been stopped since
C1_Witness ==
    \E t, u \in Born :
        /\ status[t] \in {"Completed", "Failed"} /\ cancelled[t]
        /\ status[u] = "Cancelled"
        /\ stopCalls > 0

\* C2: a task whose cancel() came before any worker dequeued it never has its
\* work closure invoked and never is Running or Completed; when the worker
\* that dequeued it lets go of it, its status is Cancelled.
C2_CancelBeforeDequeue ==
    [][\A t \in earlyCancel :
          /\ invoked'[t] = 0
          /\ status'[t] \in {"Pending", "Cancelled"}
          /\ \A w \in Workers :
                (wcur[w] = t /\ wcur'[w] # t) => status'[t] = "Cancelled"]_vars

\* a task cancelled while queued has been dequeued and marked Cancelled
C2_Witness ==
    \E t \in earlyCancel : status[t] = "Cancelled" /\ invoked[t] = 0

\* C3: when a worker dequeues a task, no task left in the queue has a
\* strictly higher priority.
C3_DequeueHighestPriority ==
    [][\A w \in Workers :
          (wpc[w] = "wait" /\ wpc'[w] = "call") =>
              \A i \in 1..Len(queue') : queue'[i].priority <= prio[wcur'[w]]]_vars

\* a worker holds a High task it just dequeued while a Normal task that was
\* submitted earlier is still queued
C3_Witness ==
    \E w \in Workers :
        /\ wpc[w] = "call"
        /\ prio[wcur[w]] = High
        /\ \E i \in 1..Len(queue) :
              queue[i].priority = Normal /\ queue[i].id < wcur[w]

\* C4: of two tasks of equal priority the one submitted first leaves the
\* queue first: while the earlier one is queued, so is the later one.
C4_FifoWithinPriority ==
    \A a, b \in Born :
        (a < b /\ prio[a] = prio[b] /\ InQueue(a)) => InQueue(b)

\* C5: a task submitted after stop() has status Failed.
C5_SubmitAfterStopFails ==
    \A t \in afterStop : status[t] = "Failed"

\* C6: a task that was queued when stop() set running_ = false never has its
\* work closure invoked, and the queue is empty when stop() returns.
C6_StopDropsPending ==
    [][/\ \A t \in atStop' : invoked'[t] = 0
       /\ (ctl = "drain" /\ ctl' = "idle") => queue' = <<>>]_vars

\* C7: stop() on a queue that is not running (stopped before, or never
\* started) changes nothing of the queue: no join, no drain, no state change.
C7_StopIdempotent ==
    [][(stopCalls' # stopCalls /\ stopCalls' > 0 /\ ~running) => UNCHANGED tqProg]_vars

\* stop() was called twice in a row, and the tasks submitted in between are
\* still queued
C7_Witness ==
    /\ stopCalls = 2
    /\ ctl = "idle"
    /\ \E t \in afterStop : InQueue(t)

\* C8: a task that a worker ran is Completed exactly when its work returned
\* and Failed exactly when its work raised a failure.
C8_FinalStatusMatchesOutcome ==
    \A t \in Born :
        outcome[t] # "none" =>
            /\ (status[t] = "Completed") <=> (outcome[t] = "returned")
            /\ (status[t] = "Failed") <=> (outcome[t] = "threw")

\* ------------------------------------------------------------------------
\* Properties of the EventBus
\* ------------------------------------------------------------------------

\* C9: for every source and every subscriber, the events the source emitted
\* with emit reach the subscriber in the order of their emission.
C9_PerSourceOrder ==
    \A m \in Modules :
        \A i, j \in 1..Len(delivered[m]) :
            (/\ i < j
             /\ ~delivered[m][i].sync
             /\ ~delivered[m][j].sync
             /\ delivered[m][i].source = delivered[m][j].source)
            => delivered[m][i].data < delivered[m][j].data

\* a handler received two queued events of one source and, after the first
\* of them, a queued event of another source
C9_Witness ==
    \E m \in Modules :
        \E i, j, k \in 1..Len(delivered[m]) :
            /\ i < j /\ i < k
            /\ ~delivered[m][i].sync /\ ~delivered[m][j].sync /\ ~delivered[m][k].sync
            /\ delivered[m][i].source = delivered[m][j].source
            /\ delivered[m][k].source # delivered[m][i].source

\* C10: no handler is ever called with an event whose source is the name the
\* handler is registered under, whether the event came through emit or
\* through emit_sync.
C10_NoSelfDelivery ==
    \A m \in Modules :
        \A i \in 1..Len(delivered[m]) : delivered[m][i].source # m

\* the worker delivers a queued event of m1 to the subscribers of its type,
\* m1 is registered and is one of them and has been passed over, and m2 has
\* received an emit_sync event of m1 to whose type m1 is subscribed as well
C10_Witness ==
    /\ bpc = "deliver"
    /\ bcur.source \in handlers
    /\ bcur.source \in subs[bcur.type]
    /\ bcur.source \notin btodo
    /\ \E i \in 1..Len(delivered["m2"]) :
          /\ delivered["m2"][i].sync
          /\ delivered["m2"][i].source = "m1"
          /\ "m1" \in subs[delivered["m2"][i].type]

\* ------------------------------------------------------------------------
\* Properties of handlers, the KernelAPI and the ModuleRegistry
\* ------------------------------------------------------------------------

C12_SubscribersAreRegistered ==
    \A ty \in DOMAIN subs : subs[ty] \subseteq handlers

\* m1 was registered and subscribed (it has been called with an event), it
\* is unregistered now and in no subscription set, and m2 is still subscribed
C12_Witness ==
    /\ delivered["m1"] # <<>>
    /\ "m1" \notin handlers
    /\ \E ty \in DOMAIN subs : "m2" \in subs[ty]

\* C13: a call of emit_event or subscribe_event that a handler makes while
\* the bus worker runs it returns true or false, and the worker never hangs
\* in a delivery.
C13_ReentrantCallCompletes ==
    /\ bpc # "stuck"
    /\ apiCall.reentrant => apiCall.ret \in {"true", "false"}

\* the bit a KernelAPI function requires
RequiredBit(fn) == IF fn = "emit_event" THEN EventEmit ELSE EventSubscribe

\* the positions of the bits set in v \div 2^b, counted from b
RECURSIVE BitsFrom(_, _)
BitsFrom(v, b) ==
    IF v = 0 THEN {}
    ELSE (IF v % 2 = 1 THEN {b} ELSE {}) \cup BitsFrom(v \div 2, b + 1)

\* the bits set in a Permission value
BitsOf(v) == BitsFrom(v, 0)

\* the bits granted to module m
Granted(m) == IF m \in DOMAIN permissions THEN BitsOf(permissions[m]) ELSE {}

\* C14: a call of emit_event or subscribe_event under the name of a module
\* that lacks the bit the function requires returns false and leaves the
\* event queue, the subscription table and the permission table unchanged.
C14_DeniedCallChangesNothing ==
    [][(/\ apiCall' # apiCall
        /\ ~(BitsOf(RequiredBit(apiCall'.fn)) \subseteq Granted(apiCall'.name)))
       => (apiCall'.ret = "false" /\ UNCHANGED <<evq, subs, permissions>>)]_vars

\* a registered module that holds EventSubscribe only and is subscribed was
\* refused emit_event while an event was queued
C14_Witness ==
    /\ apiCall.fn = "emit_event"
    /\ apiCall.ret = "false"
    /\ apiCall.name \in DOMAIN permissions
    /\ permissions[apiCall.name] = EventSubscribe
    /\ \E ty \in DOMAIN subs : apiCall.name \in subs[ty]
    /\ evq # <<>>

\* C15: the permission table has an entry exactly for the registered
\* modules, and each entry is the set its module declares.
C15_PermissionsAreDeclared ==
    /\ DOMAIN permissions = DOMAIN modules
    /\ \A m \in DOMAIN modules : permissions[m] = modules[m].required

\* m2, which needs m1 loaded to be loaded, is Enabled and comes before m1 in
\* the load order: m1 was unregistered and registered again, now declaring
\* EventEmit only
C15_Witness ==
    /\ loadOrder = <<"m2", "m1">>
    /\ modules["m2"].state = "Enabled"
    /\ modules["m2"].required = AllEvents
    /\ modules["m1"].required = EventEmit

\* C16: has_permission(set, check) returns true exactly when every bit of
\* check is a bit of set.
C16_HasPermissionIsSubset ==
    permResult # "none" =>
        ((permResult = "true") <=> (BitsOf(permCheck) \subseteq BitsOf(permSet)))

\* has_permission returned false for two values that share a bit
C16_Witness ==
    /\ permResult = "false"
    /\ BitsOf(permCheck) \cap BitsOf(permSet) # {}

\* the step is a call of registry function op for module m
IsRegCall(op, m) ==
    /\ regCall'.tick # regCall.tick
    /\ regCall'.op = op
    /\ regCall'.name = m

\* C17: enable_module on a Disabled module returns success and leaves the
\* module Enabled, unless the enable hook fails.
C17_EnableFromDisabled ==
    [][\A m \in DOMAIN modules :
          (IsRegCall("enable", m) /\ modules[m].state = "Disabled") =>
              \/ regCall'.err = "none" /\ modules'[m].state = "Enabled"
              \/ regCall'.err = "hook"]_vars

\* C18: when load_module or enable_module returns the error of the module's
\* hook, the module is in state Error.
C18_HookFailureSetsError ==
    [][\A m \in DOMAIN modules :
          ((IsRegCall("load", m) \/ IsRegCall("enable", m)) /\ regCall'.err = "hook") =>
              modules'[m].state = "Error"]_vars

\* C19: a module in state Error stays in state Error as long as it is
\* registered, and only unregister_module ends its registration.
C19_ErrorIsTerminal ==
    [][\A m \in DOMAIN modules :
          modules[m].state = "Error" =>
              \/ m \in DOMAIN modules' /\ modules'[m].state = "Error"
              \/ m \notin DOMAIN modules' /\ IsRegCall("unregister", m)]_vars

\* C20: load_module on a module that is Loaded, Enabled or Disabled returns a
\* Module error, does not invoke the load hook and leaves every module's
\* state unchanged.
C20_LoadOnlyFromUnloaded ==
    [][\A m \in DOMAIN modules :
          (IsRegCall("load", m) /\ modules[m].state \in {"Loaded", "Enabled", "Disabled"}) =>
              /\ regCall'.err = "module"
              /\ "load" \notin regCall'.hooks
              /\ modules' = modules]_vars

\* a dependency of m is unregistered, or in a state other than Loaded and
\* Enabled
DependencyMissing(m) ==
    \E d \in Dependencies(m) :
        d \notin DOMAIN modules \/ modules[d].state \notin {"Loaded", "Enabled"}

\* C21 as stated: load_module(B) fails with a Module error, without the load
\* hook and without a change of state, while a dependency of B is missing;
\* otherwise it succeeds and B is Loaded.
C21_LoadGatedByDependencies ==
    [][\A m \in DOMAIN modules :
          IsRegCall("load", m) =>
              IF DependencyMissing(m)
              THEN /\ regCall'.err = "module"
                   /\ "load" \notin regCall'.hooks
                   /\ modules' = modules
              ELSE /\ regCall'.err = "none"
                   /\ modules'[m].state = "Loaded"]_vars

\* C21: load_module(B) fails with a Module error, without the load hook and
\* without a change of state, while a dependency of B is missing; otherwise
\* it invokes the load hook of B, and B is Loaded when the hook succeeds and
\* in Error, with the error of the hook returned, when it fails.
C21_LoadGatedUnlessHookFails ==
    [][\A m \in DOMAIN modules :
          IsRegCall("load", m) =>
              IF DependencyMissing(m)
              THEN /\ regCall'.err = "module"
                   /\ "load" \notin regCall'.hooks
                   /\ modules' = modules
              ELSE /\ "load" \in regCall'.hooks
                   /\ \/ regCall'.err = "none" /\ modules'[m].state = "Loaded"
                      \/ regCall'.err = "hook" /\ modules'[m].state = "Error"]_vars

\* load_module(m2) was refused while m1, registered and loaded before, is
\* Disabled
C21_Witness ==
    /\ regCall.op = "load"
    /\ regCall.name = "m2"
    /\ regCall.err = "module"
    /\ "m2" \in DOMAIN modules
    /\ "m1" \in DOMAIN modules
    /\ modules["m1"].state = "Disabled"

\* C22: a call of enable_module that moves a module to Enabled finds every
\* dependency of the module registered and Loaded or Enabled.
C22_EnabledHasDependencies ==
    [][\A m \in DOMAIN modules :
          (/\ IsRegCall("enable", m)
           /\ modules[m].state # "Enabled"
           /\ modules'[m].state = "Enabled") => ~DependencyMissing(m)]_vars

\* the place of x in seq
PosIn(seq, x) == CHOOSE i \in DOMAIN seq : seq[i] = x

\* the step is a call of op, a function that walks load_order_
IsBulkCall(op) ==
    /\ regCall'.tick # regCall.tick
    /\ regCall'.op = op

\* C23: shutdown_all invokes the shutdown hooks of the loaded modules in the
\* reverse of the order in which their loads succeeded.
C23_ShutdownReversesLoadOrder ==
    [][IsBulkCall("shutdown_all") =>
          \A i, j \in DOMAIN loadSeq :
              i < j => PosIn(regCall'.seq, <<loadSeq[j], "shutdown">>)
                          < PosIn(regCall'.seq, <<loadSeq[i], "shutdown">>)]_vars

\* C24: unregister_module invokes the shutdown hook exactly when the module
\* is not Unloaded and the disable hook exactly when it is Enabled; for an
\* Unloaded module it invokes no hook.
C24_UnregisterShutsDownLoaded ==
    [][\A m \in DOMAIN modules :
          IsRegCall("unregister", m) =>
              /\ ("shutdown" \in regCall'.hooks) <=> (modules[m].state # "Unloaded")
              /\ ("disable" \in regCall'.hooks) <=> (modules[m].state = "Enabled")
              /\ modules[m].state = "Unloaded" => regCall'.seq = <<>>]_vars

\* C25: Kernel::load_modules invokes load hooks in registration order only;
\* when it returns success every module is Loaded; when it returns an error,
\* that error is the one of load_module for the first module that failed,
\* the modules before it are Loaded, and the modules after it keep their
\* state and have no hook invoked.
C25_LoadModulesAbortsOnFirstFailure ==
    [][IsBulkCall("load_modules") =>
          LET seq == regCall'.seq
              failed == regCall'.name
              Hooked(n) == \E i \in DOMAIN seq : seq[i] = <<n, "load">>
          IN  /\ \A i \in DOMAIN seq : seq[i][2] = "load"
              /\ \A i, j \in DOMAIN seq :
                    i < j => PosIn(loadOrder, seq[i][1]) < PosIn(loadOrder, seq[j][1])
              /\ IF regCall'.err = "none"
                 THEN \A n \in DOMAIN modules :
                         Hooked(n) /\ modules'[n].state = "Loaded"
                 ELSE /\ failed \in DOMAIN modules
                      /\ \/ /\ regCall'.err = "hook"
                            /\ Hooked(failed)
                            /\ modules'[failed].state = "Error"
                         \/ /\ regCall'.err = "module"
                            /\ ~Hooked(failed)
                            /\ modules'[failed] = modules[failed]
                      /\ \A i \in DOMAIN loadOrder :
                            /\ i < PosIn(loadOrder, failed) =>
                                  /\ Hooked(loadOrder[i])
                                  /\ modules'[loadOrder[i]].state = "Loaded"
                            /\ i > PosIn(loadOrder, failed) =>
                                  /\ ~Hooked(loadOrder[i])
                                  /\ modules'[loadOrder[i]] = modules[loadOrder[i]]]_vars

\* load_modules stopped at m1, whose load hook failed; m2, registered after
\* it and enabled before, is still Enabled
C25_Witness ==
    /\ regCall.op = "load_modules"
    /\ regCall.err = "hook"
    /\ regCall.name = "m1"
    /\ loadOrder = <<"m1", "m2">>
    /\ modules["m1"].state = "Error"
    /\ modules["m2"].state = "Enabled"

\* min(a, b)
Min(a, b) == IF a < b THEN a ELSE b

\* C26: a call of generate samples at most max_tokens tokens, so that its loop
\* ends, and generates at most min(max_tokens, context_length - prompt_tokens)
\* tokens.
C26_GenerateBounded ==
    \A t \in LlmThreads :
        /\ gen[t].sampled <= gen[t].maxTokens
        /\ gen[t].nGenerated <= Min(gen[t].maxTokens, ContextLength - gen[t].nTokens)

IsSwitch(call) == call.op \in {"switch_mode", "switch_model"}

\* C28 as stated: after switch_mode(x) or a switch_model message selecting x
\* the current mode is x, the next get_status reports x, and every slot that
\* was loaded is loaded.
C28_SwitchSelectsMode ==
    [][engCall'.tick # engCall.tick =>
          /\ IsSwitch(engCall') =>
                /\ currentMode' = engCall'.mode
                /\ \A s \in Slots : slotLoaded[s] => slotLoaded'[s]
          /\ (engCall'.op = "get_status" /\ IsSwitch(engCall)) =>
                engCall'.text = to_string(engCall.mode)]_vars

\* C28: after a switch_mode(x), or a switch_model message selecting x, that
\* succeeds the current mode is x and the next get_status reports x (the text
\* of the message, when that is "fast" or "deep"); after one that fails the
\* mode is what it was; in both cases every slot that was loaded is loaded.
C28_SuccessfulSwitchSelectsMode ==
    [][engCall'.tick # engCall.tick =>
          /\ IsSwitch(engCall') =>
                /\ engCall'.err = "none" => currentMode' = engCall'.mode
                /\ engCall'.err # "none" => currentMode' = currentMode
                /\ \A s \in Slots : slotLoaded[s] => slotLoaded'[s]
          /\ (engCall'.op = "get_status" /\ IsSwitch(engCall) /\ engCall.err = "none") =>
                /\ engCall'.text = to_string(engCall.mode)
                /\ engCall.text \in {"fast", "deep"} => engCall'.text = engCall.text]_vars

\* get_status reports "deep" with both slots loaded: the mode was switched
\* and the slot that was active before is still loaded
C28_Witness ==
    /\ engCall.op = "get_status"
    /\ engCall.text = "deep"
    /\ currentMode = "Deep"
    /\ \A s \in Slots : slotLoaded[s]

\* C29: at no time are two generations in progress in the inference engine.
C29_OneGenerationAtATime ==
    Cardinality({t \in LlmThreads : gen[t].pc \in InGenerate}) <= 1

\* C30: while a thread is in generate on a slot it holds the lock of the
\* slot, the slot is and stays loaded, and no other thread is or gets into
\* generate on that slot.
C30_GenerateHoldsSlotLock ==
    [][\A t \in LlmThreads :
          gen[t].pc \in InGenerate =>
              /\ slotLock[gen[t].slot] = t
              /\ slotLoaded[gen[t].slot]
              /\ slotLoaded'[gen[t].slot]
              /\ \A u \in LlmThreads \ {t} :
                    /\ ~(gen[u].pc \in InGenerate /\ gen[u].slot = gen[t].slot)
                    /\ ~(gen'[u].pc \in InGenerate /\ gen'[u].slot = gen[t].slot)]_vars

\* the worker is in generate on the slot the caller of generate_sync waits for
C30_Witness ==
    /\ gen["worker"].pc \in InGenerate
    /\ gen["caller"].pc = "wait"
    /\ gen["caller"].slot = gen["worker"].slot

\* ------------------------------------------------------------------------
\* TaskQueue: the mutex, the condition variable and the workers
\* ------------------------------------------------------------------------

\* C36: a worker that is about to run or runs the work of a task does not
\* hold mutex_, and mutex_ is then free or held by a worker that is about to
\* block in cv_.wait and to release it: a submit made by the work, the
\* dequeueing of other workers and the submits of producers are not kept
\* waiting by the running task.
C36_WorkRunsOutsideMutex ==
    \A w \in Workers :
        wpc[w] \in {"call", "work"} =>
            /\ qmutex # w
            /\ qmutex # 0 => wpc[qmutex] = "sleepy"

\* task 1 is running; its work has submitted task 2, which the other worker
\* has dequeued and runs at the same time
C36_Witness ==
    \E w, u \in Workers :
        /\ w # u
        /\ wpc[w] = "work" /\ wcur[w] = 1
        /\ wpc[u] = "work" /\ wcur[u] = 2
        /\ kind[2] = "nested"

\* C37 as stated: once stop has set running_ = false and broadcast the
\* condition variable no worker is blocked on the condition variable, so
\* every worker can be joined.
C37_NoWorkerSleepsThroughStop ==
    ~(ctl = "join" /\ ~running /\ \E w \in Workers : wpc[w] = "asleep")

\* C38: the work closure of every task has been invoked at most once, and no
\* two workers hold the same task.
C38_WorkInvokedAtMostOnce ==
    /\ \A t \in Born : invoked[t] <= 1
    /\ \A w, u \in Workers : (w # u /\ wcur[w] # 0) => wcur[w] # wcur[u]

\* after a stop and a later start both workers run a task, one of them a
\* task that was submitted while the queue was stopped
C38_Witness ==
    /\ stopCalls = 0
    /\ \E w, u \in Workers :
          /\ w # u
          /\ wpc[w] = "work" /\ wpc[u] = "work"
          /\ wcur[w] \in afterStop
          /\ invoked[wcur[w]] = 1 /\ invoked[wcur[u]] = 1

\* ------------------------------------------------------------------------
\* EventBus: unregister_handler against deliveries
\* ------------------------------------------------------------------------

\* C39: handle_event is never invoked under a name that has no registered
\* handler, so not after unregister_handler(name) returned and before the
\* name is registered again, whatever was queued before; and the step in
\* which unregister_handler removes a handler is not taken while a delivery
\* is in progress.
C39_NoDeliveryAfterUnregister ==
    [][\A m \in Modules :
          /\ m \notin handlers => delivered'[m] = delivered[m]
          /\ (m \in handlers /\ m \notin handlers') =>
                /\ bpc # "deliver"
                /\ delivered'[m] = delivered[m]]_vars

\* m2 handled one event and was unregistered; a second event, delivered since
\* then, reached m1 alone
C39_Witness ==
    /\ "m2" \notin handlers
    /\ Len(delivered["m2"]) = 1
    /\ Len(delivered["m1"]) = 2
    /\ evq = <<>>
    /\ bcur = <<>>

\* ------------------------------------------------------------------------
\* ModelManager: a switch of mode that fails
\* ------------------------------------------------------------------------

\* C40: a switch_mode, or a switch_model message, that returns an error
\* returns the LLM error of the load and leaves the current mode and the
\* loaded slots as they were.
C40_FailedSwitchChangesNothing ==
    [][(engCall'.tick # engCall.tick /\ IsSwitch(engCall') /\ engCall'.err # "none") =>
          /\ engCall'.err = "llm"
          /\ ~slotLoaded[SlotOf(engCall'.mode)]
          /\ currentMode' = currentMode
          /\ slotLoaded' = slotLoaded]_vars

\* the engine runs in Fast mode with the fast slot loaded, and a switch to
\* Deep has just failed on loading the deep slot
C40_Witness ==
    /\ IsSwitch(engCall)
    /\ engCall.mode = "Deep"
    /\ engCall.err = "llm"
    /\ initialized
    /\ currentMode = "Fast"
    /\ slotLoaded["fast_model"]
    /\ ~slotLoaded["deep_model"]

\* ------------------------------------------------------------------------
\* LlmModel handles, the engine that failed to initialize, the boundary
\* ------------------------------------------------------------------------

\* C31: whenever mutex_ of a model slot is free model_ and ctx_ are both set
\* or both null; ctx_ is never set without model_ (unload frees the context
\* first); and a load that ends at the loading of the weights or at the
\* creation of the context returns an LLM error and leaves both null.
C31_HandlesPresentTogether ==
    [][/\ lm'.lock = "none" => (lm'.model <=> lm'.ctx)
       /\ lm'.ctx => lm'.model
       /\ \A t \in LmThreads :
             (lm.pc[t] \in {"weights", "context"} /\ lm'.pc[t] = "idle"
                 /\ lm'.ret[t] # 0) =>
                 /\ lm'.ret[t] \in LoadErrors
                 /\ ~lm'.model
                 /\ ~lm'.ctx]_vars

\* a load of t2 failed at the creation of the context; t1 loaded the model
\* since and is unloading it: the context is freed, the weights not yet
C31_Witness ==
    /\ lm.ret["t2"] = 4
    /\ lm.ret["t1"] = 0
    /\ lm.pc["t1"] = "freeweights"
    /\ lm.model
    /\ ~lm.ctx

\* the last call of the engine is an initialize that failed
InitializeFailed == engCall.op = "initialize" /\ engCall.err # "none"

\* C32 as stated, for submit: a request that waits in the task queue of an
\* engine whose initialize failed is taken out of it (to be completed with an
\* error), unless the engine gets ready.
C32_RequestAfterFailedInitializeEnds ==
    (InitializeFailed /\ pending > 0) ~> (pending = 0 \/ initialized)

\* the text of the inbound message is a greeting once lower-cased and trimmed
IsGreeting(text) == trim(to_lower(text)) \in Greetings

\* the step handles an inbound user_message / completes a request
HandlesUserMessage == ipcCall'.tick # ipcCall.tick /\ ipcCall'.op = "user_message"
CompletesRequest == ipcCall'.tick # ipcCall.tick /\ ipcCall'.op = "complete"

\* C33 as stated: the handling of a user_message whose text is a greeting
\* queues exactly the response "Hello!" and submits no request.
C33_GreetingAnsweredHello ==
    [][(HandlesUserMessage /\ IsGreeting(ipcCall'.text)) =>
          /\ outbound' = Append(outbound, LlmResponse(Hello))
          /\ pending' = pending]_vars

\* msg is raw without the whitespace at its two ends
IsTrimOf(msg, raw) ==
    \E a, b \in 0..Len(raw) :
        /\ a + b <= Len(raw)
        /\ msg = SubSeq(raw, a + 1, Len(raw) - b)
        /\ \A i \in 1..a : raw[i] \in Whitespace
        /\ \A i \in (Len(raw) - b + 1)..Len(raw) : raw[i] \in Whitespace
        /\ msg # <<>> => (msg[1] \notin Whitespace /\ msg[Len(msg)] \notin Whitespace)

\* C34: with the engine ready, the handling of a user_message that is no
\* greeting puts exactly one request into the queue of the engine and queues
\* no response; the completion of a request takes it from the queue and
\* appends exactly one llm_response to the outbound queue, whose message is,
\* when the generation succeeded, the output without the whitespace at its
\* ends.
C34_OneJobOneResponse ==
    [][/\ (HandlesUserMessage /\ initialized /\ ~IsGreeting(ipcCall'.text)) =>
             /\ pending' = pending + 1
             /\ outbound' = outbound
       /\ CompletesRequest =>
             /\ pending' = pending - 1
             /\ Len(outbound') = Len(outbound) + 1
             /\ SubSeq(outbound', 1, Len(outbound)) = outbound
             /\ outbound'[Len(outbound')].type = "llm_response"
             /\ ipcCall'.err = <<>> =>
                   IsTrimOf(outbound'[Len(outbound')].message, ipcCall'.text)]_vars

\* the request of a user message was completed with the output " ok\n" and
\* the response "ok" waits in the outbound queue
C34_Witness ==
    /\ ipcCall.op = "complete"
    /\ ipcCall.err = <<>>
    /\ ipcCall.text = <<" ", "o", "k", "\n">>
    /\ outbound = <<LlmResponse(<<"o", "k">>)>>
    /\ pending = 0

\* C35 as stated: from_json(m.to_json()) returns a message, and it is m.
C35_JsonRoundTrip ==
    ipcParsed.state # "none" =>
        /\ ipcParsed.state = "message"
        /\ ipcParsed.type = ipcMsg.type
        /\ ipcParsed.data = ipcMsg.data

====
